---- MODULE Spec2Model ----
(***************************************************************************)
(* Model of the NPK/PPK unpackers: the frame scanner, the content          *)
(* classifier, the per-frame extraction task and the worker that runs the  *)
(* tasks serially or on a thread pool and the main window that starts and  *)
(* stops the worker (src/NpkUnlock_GUI.py), the windowed                   *)
(* multi-container variant (src/PPKUnlocker.py) and the command line       *)
(* variant (src/NpkUnlocker.py).                                           *)
(*                                                                         *)
(* Bytes are integers 0..255 and buffers are sequences of bytes.  The zstd *)
(* library is outside the repository: it is modelled by a small codec in   *)
(* which a frame is the 4-byte signature followed by one code byte that    *)
(* selects the payload; a signature without a valid code byte does not     *)
(* decompress (ZstdError).  md5 is modelled by a collision-free digest.    *)
(***************************************************************************)
EXTENDS Integers, Sequences, FiniteSets, TLC

\* ---------------------------------------------------------------- bounds
MaxFrames == 2      \* frames per container of the desktop worker
MaxThreads == 2     \* largest pool size tried for max_threads
MaxPpkFiles == 2    \* containers in the directory of the windowed variant
MaxPieces == 3      \* pieces a scanned buffer of the command line variant is made of
MaxRuns == 2        \* runs started from one main window

\* ------------------------------------------------------------- byte tools
\* data[a:b] of Python for 0 <= a, with b clipped to the length (0-based, b excluded)
Slice(data, a, b) ==
  LET hi == IF b > Len(data) THEN Len(data) ELSE b
  IN  IF a >= hi THEN << >> ELSE SubSeq(data, a + 1, hi)

\* data[:n] == magic, guarded by len(data) >= n as in the source
HasPrefix(data, magic) ==
  Len(data) >= Len(magic) /\ SubSeq(data, 1, Len(magic)) = magic

\* data[-n:] == magic, guarded by len(data) >= n
HasSuffix(data, magic) ==
  Len(data) >= Len(magic)
  /\ SubSeq(data, Len(data) - Len(magic) + 1, Len(data)) = magic

\* bytes.find(magic, pos): the lowest 0-based index >= pos where magic occurs, or -1
RECURSIVE Find(_, _, _)
Find(data, magic, pos) ==
  IF pos + Len(magic) > Len(data) THEN -1
  ELSE IF SubSeq(data, pos + 1, pos + Len(magic)) = magic THEN pos
  ELSE Find(data, magic, pos + 1)

\* ------------------------------------------------------------ signatures
ZSTD_MAGIC == <<40, 181, 47, 253>>                  \* b"\x28\xb5\x2f\xfd"
MESH_MAGIC == <<52, 128, 200, 187>>                 \* b"\x34\x80\xc8\xbb"
PNG_MAGIC == <<137, 80, 78, 71>>                    \* b"\x89PNG"
KTX_MAGIC == <<171, 75, 84, 88, 32, 49, 49, 187>>   \* b"\xABKTX 11\xBB"
DDS_MAGIC == <<68, 68, 83>>                         \* b"DDS"
RIFF_MAGIC == <<82, 73, 70, 70>>                    \* b"RIFF"
WAVE_MAGIC == <<87, 65, 86, 69>>                    \* b"WAVE"
BKHD_MAGIC == <<66, 75, 72, 68>>                    \* b"BKHD"
AKPK_MAGIC == <<65, 75, 80, 75>>                    \* b"AKPK"
\* b"TRUEVISION-XFILE.\x00" (18 bytes)
TGA_TAIL_MAGIC ==
  <<84, 82, 85, 69, 86, 73, 83, 73, 79, 78, 45, 88, 70, 73, 76, 69, 46, 0>>

\* ------------------------------------------------------------ classifier
\* mutant: the trailer test is made before the prefix tests
detect_file_extension_TailFirst(data) ==
  IF data = << >> THEN ""
  ELSE IF HasSuffix(data, TGA_TAIL_MAGIC) THEN ".tga"
  ELSE IF HasPrefix(data, MESH_MAGIC) THEN ".mesh"
  ELSE IF HasPrefix(data, PNG_MAGIC) THEN ".png"
  ELSE IF HasPrefix(data, KTX_MAGIC) THEN ".ktx"
  ELSE IF HasPrefix(data, DDS_MAGIC) THEN ".dds"
  ELSE IF Len(data) >= 12 /\ HasPrefix(data, RIFF_MAGIC)
          /\ Slice(data, 8, 12) = WAVE_MAGIC THEN ".wem"
  ELSE IF HasPrefix(data, BKHD_MAGIC) THEN ".bnk"
  ELSE IF HasPrefix(data, AKPK_MAGIC) THEN ".npk"
  ELSE IF HasPrefix(data, ZSTD_MAGIC) THEN ".zst"
  ELSE ""

detect_file_extension(data) ==
  IF data = << >> THEN ""
  ELSE IF HasPrefix(data, MESH_MAGIC) THEN ".mesh"
  ELSE IF HasPrefix(data, PNG_MAGIC) THEN ".png"
  ELSE IF HasPrefix(data, KTX_MAGIC) THEN ".ktx"
  ELSE IF HasPrefix(data, DDS_MAGIC) THEN ".dds"
  ELSE IF Len(data) >= 12 /\ HasPrefix(data, RIFF_MAGIC)
          /\ Slice(data, 8, 12) = WAVE_MAGIC THEN ".wem"
  ELSE IF HasPrefix(data, BKHD_MAGIC) THEN ".bnk"
  ELSE IF HasPrefix(data, AKPK_MAGIC) THEN ".npk"
  ELSE IF HasPrefix(data, ZSTD_MAGIC) THEN ".zst"
  ELSE IF HasSuffix(data, TGA_TAIL_MAGIC) THEN ".tga"
  ELSE ""

\* FILE_CATEGORY_MAP.get(ext, "unknown"); the buckets are named by meaning:
\* audio = "普通文件", image = "图片文件", mesh = "模型文件",
\* package = "数据文件", compressed = "压缩文件", unknown = "未知文件"
FILE_CATEGORY_MAP(ext) ==
  CASE ext \in {".wem", ".bnk"} -> "audio"
    [] ext \in {".png", ".dds", ".ktx", ".tga"} -> "image"
    [] ext = ".mesh" -> "mesh"
    [] ext = ".npk" -> "package"
    [] ext = ".zst" -> "compressed"
    [] OTHER -> "unknown"

\* ---------------------------------------------------------------- scanner
RECURSIVE ScanFrom(_, _)
ScanFrom(data, pos) ==
  LET p == Find(data, ZSTD_MAGIC, pos)
  IN  IF p = -1 THEN << >> ELSE <<p>> \o ScanFrom(data, p + Len(ZSTD_MAGIC))

scan_zstd_frames(data) == ScanFrom(data, 0)

\* ------------------------------------------------------ the codec and md5
PayloadPNG == PNG_MAGIC          \* the 4-byte PNG signature as a whole payload
PayloadRaw == <<0>>              \* a payload no check of the classifier matches
CodePNG == 1
CodeRaw == 2

\* dctx.decompress(buf): the payload of the frame at the start of buf, or
\* "ZstdError" when buf does not start with a complete frame
decompress(buf) ==
  IF ~HasPrefix(buf, ZSTD_MAGIC) \/ Len(buf) < 5 THEN "ZstdError"
  ELSE IF buf[5] = CodePNG THEN PayloadPNG
  ELSE IF buf[5] = CodeRaw THEN PayloadRaw
  ELSE "ZstdError"

\* hashlib.md5(data).hexdigest(): a digest that differs for different contents
\* (each byte is mapped by a bijection of 0..255 that depends on its position)
md5(data) == [n \in 1..Len(data) |-> (data[n] * 7 + n) % 256]

\* =================================================== the desktop worker
VARIABLES
  fs,                 \* the file system at start: "ok", "input_missing", "output_uncreatable"
  data,               \* the container's bytes (read once, never changed)
  fast_mode,          \* ExtractWorker.fast_mode
  max_threads,        \* ExtractWorker.max_threads
  enable_md5,         \* ExtractWorker.enable_md5
  enable_type_detect, \* ExtractWorker.enable_type_detect
  stop,               \* ExtractWorker._stop
  pc,                 \* position of ExtractWorker.run
  frame_positions,    \* result of scan_zstd_frames
  extracted_hashes,   \* the dedup set shared by the tasks of a run
  extracted_count,    \* local counter of run
  i,                  \* frames dispatched so far (loop index of the dispatch loop)
  idx,                \* futures drained so far (loop index of the result loop)
  task,               \* task[k]: the call of extract_single_frame for frame_idx = k-1
  dirs,               \* category folders that exist under output_root
  disk,               \* files under output_root: path -> content
  events,             \* signals emitted by the worker, in emission order
  stop_at,            \* history: pc of run when stop() was first called ("never" if not)
  i_at_stop,          \* history: frames dispatched when stop() was first called (-1 if not)
  first_run           \* history: what an earlier run on the same input and output left

\* ------------------------------------- state of the windowed variant (PPK)
VARIABLES
  ppk_files,          \* the containers found in the directory, in listing order
  DUPLICATE_MD5,      \* the global dedup set of PPKUnlocker
  ppk,                \* ppk[f]: the call of process_ppk_file for container f
  ppk_disk,           \* files under output_root: save_path -> content
  results,            \* results collected by main, in completion order
  main_pc,            \* position of main
  totals              \* total_processed, total_extracted, failed_files of main

ppk_vars == <<ppk_files, DUPLICATE_MD5, ppk, ppk_disk, results, main_pc, totals>>

\* ------------------------------ state of the command line variant (NpkUnlocker)
VARIABLES
  npk                 \* the call of extract_zstd_container: its locals and the disk

npk_vars == <<npk>>

\* ------------------------------------------- one classification on its own
VARIABLES
  probe               \* a payload on its way through line 157-166 of extract_single_frame

\* ------------------------------------- the main window of the desktop variant
VARIABLES
  win                 \* MainWindow: buttons, worker references, event queue, worker threads

aux_vars == <<probe, win>>

gui_vars ==
  <<fs, data, fast_mode, max_threads, enable_md5, enable_type_detect, stop, pc,
    frame_positions, extracted_hashes, extracted_count, i, idx, task, dirs, disk,
    events, stop_at, i_at_stop, first_run>>

config == <<fs, data, fast_mode, max_threads, enable_md5, enable_type_detect>>

total_frames == Len(frame_positions)

\* the payloads the codec knows and their fingerprints
Payloads == {PayloadPNG, PayloadRaw}
Fingerprints == {md5(p) : p \in Payloads}

\* no earlier run: no artifacts and no files per fingerprint
NoRun ==
  [ended |-> FALSE, faults |-> FALSE,
   artifacts |-> [h \in Fingerprints |-> 0], files |-> [h \in Fingerprints |-> 0]]

\* ------------------------------------------------------------ containers
FramePNG == ZSTD_MAGIC \o <<CodePNG>>   \* a frame that decompresses to PayloadPNG
FrameRaw == ZSTD_MAGIC \o <<CodeRaw>>   \* a frame that decompresses to PayloadRaw
FrameCut == ZSTD_MAGIC                  \* a signature with no stream after it
FrameKinds == {FramePNG, FrameRaw, FrameCut}

RECURSIVE Concat(_)
Concat(frames) ==
  IF frames = << >> THEN << >> ELSE Head(frames) \o Concat(Tail(frames))

Containers ==
  { Concat(fr) : fr \in UNION { [1..n -> FrameKinds] : n \in 0..MaxFrames } }

\* ------------------------------------------------------------------ tasks
NewTask ==
  [pc |-> "idle", ret |-> "none", decompressed |-> << >>, file_hash |-> << >>,
   ext |-> "", category |-> "", phases |-> << >>]

Running == {"c2", "decompress", "dedup", "classify", "write", "add"}

\* a pool thread is free for task t, and t is the oldest queued work item; a task
\* called directly by run (serial policy) starts at once
WorkerFree(t) ==
  \/ ~fast_mode
  \/ /\ Cardinality({u \in DOMAIN task : task[u].pc \in Running}) < max_threads
     /\ \A u \in DOMAIN task : u < t => task[u].pc # "queued"

Return(t, r, ph) ==
  [task EXCEPT ![t].pc = "done", ![t].ret = r, ![t].phases = @ \o ph]

Goto(t, p, ph) ==
  [task EXCEPT ![t].pc = p, ![t].phases = @ \o ph]

\* mutant: the file name leaves the frame's sequence index out
output_filename_NoIndex(t, ext) == <<"extracted_frame_", 0, ext>>

\* generated file name and path of frame_idx = t-1 (line 165-166): the tuple
\* stands for f"extracted_frame_{frame_idx + 1}{ext}", in which the decimal
\* index ends where the extension (empty, or a dot and letters) begins
output_filename(t, ext) == <<"extracted_frame_", t, ext>>
output_path(t, category, ext) == <<category, output_filename(t, ext)>>

task_unchanged ==
  UNCHANGED <<config, stop, pc, frame_positions, extracted_count, i, idx, events,
              stop_at, i_at_stop, first_run, ppk_vars, npk_vars, aux_vars>>

\* line 135-136: the first poll of the stop flag
TaskCheckStart(t) ==
  /\ t \in DOMAIN task
  /\ task[t].pc = "queued"
  /\ WorkerFree(t)
  /\ task' = IF stop THEN Return(t, "int_not_started", <<"check">>)
             ELSE Goto(t, "c2", <<"check">>)
  /\ UNCHANGED <<extracted_hashes, dirs, disk>>
  /\ task_unchanged

\* mutant: the poll of line 141 left out
TaskCheckDctx_NoPoll(t) ==
  /\ t \in DOMAIN task
  /\ task[t].pc = "c2"
  /\ task' = Goto(t, "decompress", << >>)
  /\ UNCHANGED <<extracted_hashes, dirs, disk>>
  /\ task_unchanged

\* line 138-142: build the prefix and the decompressor, poll again
TaskCheckDctx(t) ==
  /\ t \in DOMAIN task
  /\ task[t].pc = "c2"
  /\ task' = IF stop THEN Return(t, "int_skip_decompress", <<"check">>)
             ELSE Goto(t, "decompress", <<"check">>)
  /\ UNCHANGED <<extracted_hashes, dirs, disk>>
  /\ task_unchanged

\* line 144-147: decompress data[frame_start:], then poll
TaskDecompress(t) ==
  /\ t \in DOMAIN task
  /\ task[t].pc = "decompress"
  /\ LET r == decompress(Slice(data, frame_positions[t], Len(data)))
     IN  task' =
           IF r = "ZstdError" THEN Return(t, "zstd_error", <<"extract">>)
           ELSE IF stop
             THEN [Return(t, "int_after_decompress", <<"extract", "check">>)
                     EXCEPT ![t].decompressed = r]
             ELSE [Goto(t, "dedup", <<"extract", "check">>)
                     EXCEPT ![t].decompressed = r]
  /\ UNCHANGED <<extracted_hashes, dirs, disk>>
  /\ task_unchanged

\* mutant: the fingerprint is marked right after the membership test
TaskDedup_MarksAtTest(t) ==
  /\ t \in DOMAIN task
  /\ task[t].pc = "dedup"
  /\ LET h == md5(task[t].decompressed)
     IN  /\ task' =
              IF enable_md5 /\ h \in extracted_hashes
                THEN [Return(t, "duplicate", <<"fingerprint", "dedup">>)
                        EXCEPT ![t].file_hash = h]
                ELSE [Goto(t, "classify",
                           IF enable_md5 THEN <<"fingerprint", "dedup">>
                           ELSE <<"fingerprint">>)
                        EXCEPT ![t].file_hash = h]
         /\ extracted_hashes' = IF enable_md5 THEN extracted_hashes \cup {h}
                                ELSE extracted_hashes
  /\ UNCHANGED <<dirs, disk>>
  /\ task_unchanged

\* line 149-155: fingerprint, and the membership test when dedup is enabled
TaskDedup(t) ==
  /\ t \in DOMAIN task
  /\ task[t].pc = "dedup"
  /\ LET h == md5(task[t].decompressed)
     IN  task' =
           IF enable_md5 /\ h \in extracted_hashes
             THEN [Return(t, "duplicate", <<"fingerprint", "dedup">>)
                     EXCEPT ![t].file_hash = h]
             ELSE [Goto(t, "classify",
                        IF enable_md5 THEN <<"fingerprint", "dedup">>
                        ELSE <<"fingerprint">>)
                     EXCEPT ![t].file_hash = h]
  /\ UNCHANGED <<extracted_hashes, dirs, disk>>
  /\ task_unchanged

\* mutant: the poll of line 168 answers with the status of the poll of line 146
TaskClassify_SameStatus(t) ==
  /\ t \in DOMAIN task
  /\ task[t].pc = "classify"
  /\ LET ext == IF enable_type_detect
                THEN detect_file_extension(task[t].decompressed) ELSE ""
         category == FILE_CATEGORY_MAP(ext)
         ph == <<"classify", "check">>
     IN  /\ dirs' = dirs \cup {category}
         /\ task' =
              IF stop
                THEN [Return(t, "int_after_decompress", ph)
                        EXCEPT ![t].ext = ext, ![t].category = category]
                ELSE [Goto(t, "write", ph)
                        EXCEPT ![t].ext = ext, ![t].category = category]
  /\ UNCHANGED <<extracted_hashes, disk>>
  /\ task_unchanged

\* mutant: the poll of line 168 left out, the task goes on to write
TaskClassify_IgnoresStop(t) ==
  /\ t \in DOMAIN task
  /\ task[t].pc = "classify"
  /\ LET ext == IF enable_type_detect
                THEN detect_file_extension(task[t].decompressed) ELSE ""
         category == FILE_CATEGORY_MAP(ext)
     IN  /\ dirs' = dirs \cup {category}
         /\ task' = [Goto(t, "write", <<"classify", "check">>)
                       EXCEPT ![t].ext = ext, ![t].category = category]
  /\ UNCHANGED <<extracted_hashes, disk>>
  /\ task_unchanged

\* line 157-169: classify, make the category folder, build the path, poll
TaskClassify(t) ==
  /\ t \in DOMAIN task
  /\ task[t].pc = "classify"
  /\ LET ext == IF enable_type_detect
                THEN detect_file_extension(task[t].decompressed) ELSE ""
         category == FILE_CATEGORY_MAP(ext)
         ph == <<"classify", "check">>
     IN  /\ dirs' = dirs \cup {category}
         /\ task' =
              IF stop
                THEN [Return(t, "int_not_written", ph)
                        EXCEPT ![t].ext = ext, ![t].category = category]
                ELSE [Goto(t, "write", ph)
                        EXCEPT ![t].ext = ext, ![t].category = category]
  /\ UNCHANGED <<extracted_hashes, disk>>
  /\ task_unchanged

\* line 171-172: write the payload; open() or write() may raise (line 194-196)
TaskWrite(t) ==
  /\ t \in DOMAIN task
  /\ task[t].pc = "write"
  /\ \/ /\ disk' = [p \in DOMAIN disk \cup {output_path(t, task[t].category, task[t].ext)} |->
                      IF p = output_path(t, task[t].category, task[t].ext)
                      THEN task[t].decompressed ELSE disk[p]]
        /\ task' = Goto(t, "add", <<"write">>)
     \/ /\ disk' = disk
        /\ task' = Return(t, "exception", <<"write">>)
  /\ UNCHANGED <<extracted_hashes, dirs>>
  /\ task_unchanged

\* mutant: the fingerprint is marked whether or not dedup is enabled
TaskAdd_AlwaysMarks(t) ==
  /\ t \in DOMAIN task
  /\ task[t].pc = "add"
  /\ extracted_hashes' = extracted_hashes \cup {task[t].file_hash}
  /\ task' = Return(t, "ok", IF enable_md5 THEN <<"mark">> ELSE << >>)
  /\ UNCHANGED <<dirs, disk>>
  /\ task_unchanged

\* line 173-188: mark the fingerprint, build msg and info, return success
TaskAdd(t) ==
  /\ t \in DOMAIN task
  /\ task[t].pc = "add"
  /\ extracted_hashes' = IF enable_md5
                         THEN extracted_hashes \cup {task[t].file_hash}
                         ELSE extracted_hashes
  /\ task' = Return(t, "ok", IF enable_md5 THEN <<"mark">> ELSE << >>)
  /\ UNCHANGED <<dirs, disk>>
  /\ task_unchanged

extract_single_frame(t) ==
  \/ TaskCheckStart(t)
  \/ TaskCheckDctx(t)
  \/ TaskDecompress(t)
  \/ TaskDedup(t)
  \/ TaskClassify(t)
  \/ TaskWrite(t)
  \/ TaskAdd(t)

\* ----------------------------------------------------------------- signals
\* One emitted signal.  sig: "log" (log_signal), "progress" (progress_signal),
\* "file" (file_signal), "finished" (finished_signal), "error" (error_signal).
\* frame: the frame (1-based) the signal is about, 0 for none; prefix: the
\* frame number printed in the message, 0 when the message carries none.
Ev(sig, frame, prefix, text, n, tot, category) ==
  <<sig, frame, prefix, text, n, tot, category>>

EvSig(e) == e[1]
EvFrame(e) == e[2]
EvPrefix(e) == e[3]
EvText(e) == e[4]
EvN(e) == e[5]
EvTotal(e) == e[6]
EvCategory(e) == e[7]

Log(text) == Ev("log", 0, 0, text, 0, 0, "")
Progress(done, tot) == Ev("progress", 0, 0, "", done, tot, "")
Finished(count) == Ev("finished", 0, 0, "", count, 0, "")
Error(text) == Ev("error", 0, 0, text, 0, 0, "")

\* msg of the triple returned by task t: the message of line 136 has no prefix
ResultLog(t) ==
  Ev("log", t, IF task[t].ret = "int_not_started" THEN 0 ELSE t, task[t].ret, 0, 0, "")

\* info of the triple returned by a successful task t
FileInfo(t) ==
  Ev("file", t, t, task[t].ext, Len(task[t].decompressed), 0, task[t].category)

\* mutant: the progress signal carries the number of artifacts so far
Collected_ProgressByCount(t) ==
  <<ResultLog(t)>>
  \o (IF task[t].ret = "ok" THEN <<FileInfo(t)>> ELSE << >>)
  \o <<Progress(IF task[t].ret = "ok" THEN extracted_count + 1 ELSE extracted_count,
                total_frames)>>

\* log, count and signals for one returned triple (line 369-374 and 385-389)
Collected(t) ==
  <<ResultLog(t)>>
  \o (IF task[t].ret = "ok" THEN <<FileInfo(t)>> ELSE << >>)
  \o <<Progress(t, total_frames)>>

\* mutant: every returned task is counted, whatever its result
Counted_Every(t) == extracted_count + 1

\* mutant: the count is bumped for the log line and again for the file signal
Counted_Twice(t) == IF task[t].ret = "ok" THEN extracted_count + 2 ELSE extracted_count

Counted(t) == IF task[t].ret = "ok" THEN extracted_count + 1 ELSE extracted_count

\* ------------------------------------------------------ ExtractWorker.run
run_unchanged ==
  UNCHANGED <<config, stop, stop_at, i_at_stop, first_run, dirs, disk, ppk_vars,
              npk_vars, aux_vars>>

\* mutant: a failure of os.makedirs is ignored and the run goes on
RunSetup_IgnoresMakedirs ==
  /\ pc = "start"
  /\ IF fs = "input_missing"
       THEN /\ events' = events \o <<Error("input_missing")>>
            /\ pc' = "done"
            /\ UNCHANGED frame_positions
     ELSE /\ events' = events \o <<Log("banner"), Log("begin"), Log("file"),
                                   Log("size"), Log("parsing"), Log("rule"),
                                   Log("scanning")>>
          /\ frame_positions' = scan_zstd_frames(data)
          /\ pc' = "scanned"
  /\ UNCHANGED <<extracted_hashes, extracted_count, i, idx, task>>
  /\ run_unchanged

\* line 298-322 and 400-403: the setup checks, the header logs, load and scan
RunSetup ==
  /\ pc = "start"
  /\ IF fs = "input_missing"
       THEN /\ events' = events \o <<Error("input_missing")>>
            /\ pc' = "done"
            /\ UNCHANGED frame_positions
     ELSE IF fs = "output_uncreatable"
       THEN /\ events' = events \o <<Error("exception")>>
            /\ pc' = "done"
            /\ UNCHANGED frame_positions
     ELSE /\ events' = events \o <<Log("banner"), Log("begin"), Log("file"),
                                   Log("size"), Log("parsing"), Log("rule"),
                                   Log("scanning")>>
          /\ frame_positions' = scan_zstd_frames(data)
          /\ pc' = "scanned"
  /\ UNCHANGED <<extracted_hashes, extracted_count, i, idx, task>>
  /\ run_unchanged

\* mutant: the return of line 328 left out, the run falls through to the summary
RunAfterScan_NoReturn ==
  /\ pc = "scanned"
  /\ IF stop
       THEN /\ events' = events \o <<Log("stopped_after_scan"), Finished(0)>>
            /\ pc' = "final"
            /\ UNCHANGED <<extracted_hashes, extracted_count, i, idx, task>>
     ELSE IF total_frames = 0
       THEN /\ events' = events \o <<Log("found"), Log("extracting"), Log("rule"),
                                     Finished(0)>>
            /\ pc' = "done"
            /\ UNCHANGED <<extracted_hashes, extracted_count, i, idx, task>>
     ELSE /\ events' = events \o <<Log("found"), Log("extracting"), Log("rule"),
                                   Progress(0, total_frames),
                                   Log(IF fast_mode THEN "fast_mode" ELSE "serial_mode")>>
          /\ extracted_hashes' = {}
          /\ extracted_count' = 0
          /\ i' = 0
          /\ idx' = 0
          /\ task' = [t \in 1..total_frames |-> NewTask]
          /\ pc' = IF fast_mode THEN "submit" ELSE "serial"
  /\ UNCHANGED frame_positions
  /\ run_unchanged

\* mutant: the run goes on with the set it finds instead of a new one
RunAfterScan_KeepsHashes ==
  /\ pc = "scanned"
  /\ IF stop
       THEN /\ events' = events \o <<Log("stopped_after_scan"), Finished(0)>>
            /\ pc' = "done"
            /\ UNCHANGED <<extracted_hashes, extracted_count, i, idx, task>>
     ELSE IF total_frames = 0
       THEN /\ events' = events \o <<Log("found"), Log("extracting"), Log("rule"),
                                     Finished(0)>>
            /\ pc' = "done"
            /\ UNCHANGED <<extracted_hashes, extracted_count, i, idx, task>>
     ELSE /\ events' = events \o <<Log("found"), Log("extracting"), Log("rule"),
                                   Progress(0, total_frames),
                                   Log(IF fast_mode THEN "fast_mode" ELSE "serial_mode")>>
          /\ extracted_hashes' = extracted_hashes
          /\ extracted_count' = 0
          /\ i' = 0
          /\ idx' = 0
          /\ task' = [t \in 1..total_frames |-> NewTask]
          /\ pc' = IF fast_mode THEN "submit" ELSE "serial"
  /\ UNCHANGED frame_positions
  /\ run_unchanged

\* mutant: the first progress signal (line 340) is sent ahead of the test of
\* line 333
RunAfterScan_ProgressFirst ==
  /\ pc = "scanned"
  /\ IF stop
       THEN /\ events' = events \o <<Log("stopped_after_scan"), Finished(0)>>
            /\ pc' = "done"
            /\ UNCHANGED <<extracted_hashes, extracted_count, i, idx, task>>
     ELSE IF total_frames = 0
       THEN /\ events' = events \o <<Log("found"), Log("extracting"), Log("rule"),
                                     Progress(0, total_frames), Finished(0)>>
            /\ pc' = "done"
            /\ UNCHANGED <<extracted_hashes, extracted_count, i, idx, task>>
     ELSE /\ events' = events \o <<Log("found"), Log("extracting"), Log("rule"),
                                   Progress(0, total_frames),
                                   Log(IF fast_mode THEN "fast_mode" ELSE "serial_mode")>>
          /\ extracted_hashes' = {}
          /\ extracted_count' = 0
          /\ i' = 0
          /\ idx' = 0
          /\ task' = [t \in 1..total_frames |-> NewTask]
          /\ pc' = IF fast_mode THEN "submit" ELSE "serial"
  /\ UNCHANGED frame_positions
  /\ run_unchanged

\* line 325-347 and 376: the stop check after the scan, the totals, the policy
RunAfterScan ==
  /\ pc = "scanned"
  /\ IF stop
       THEN /\ events' = events \o <<Log("stopped_after_scan"), Finished(0)>>
            /\ pc' = "done"
            /\ UNCHANGED <<extracted_hashes, extracted_count, i, idx, task>>
     ELSE IF total_frames = 0
       THEN /\ events' = events \o <<Log("found"), Log("extracting"), Log("rule"),
                                     Finished(0)>>
            /\ pc' = "done"
            /\ UNCHANGED <<extracted_hashes, extracted_count, i, idx, task>>
     ELSE /\ events' = events \o <<Log("found"), Log("extracting"), Log("rule"),
                                   Progress(0, total_frames),
                                   Log(IF fast_mode THEN "fast_mode" ELSE "serial_mode")>>
          /\ extracted_hashes' = {}
          /\ extracted_count' = 0
          /\ i' = 0
          /\ idx' = 0
          /\ task' = [t \in 1..total_frames |-> NewTask]
          /\ pc' = IF fast_mode THEN "submit" ELSE "serial"
  /\ UNCHANGED frame_positions
  /\ run_unchanged

\* mutant: the result loop ends one future early
AfterDrain_OffByOne(k, n) == IF k < n - 1 THEN "collect" ELSE "final"

\* where the pool block goes after the futures are built or one was drained
AfterDrain(k, n) == IF k < n THEN "collect" ELSE "final"

\* line 350-365: one iteration of the submit loop
RunSubmit ==
  /\ pc = "submit"
  /\ IF stop
       THEN /\ pc' = AfterDrain(0, i)
            /\ UNCHANGED <<i, task>>
       ELSE /\ task' = [task EXCEPT ![i + 1].pc = "queued"]
            /\ i' = i + 1
            /\ pc' = IF i + 1 < total_frames THEN "submit" ELSE "collect"
  /\ UNCHANGED <<frame_positions, extracted_hashes, extracted_count, idx, events>>
  /\ run_unchanged

\* line 366-368: the stop check at the head of the result loop
RunCollectCheck ==
  /\ pc = "collect"
  /\ pc' = IF stop THEN "final" ELSE "result"
  /\ UNCHANGED <<frame_positions, extracted_hashes, extracted_count, i, idx, task,
                 events>>
  /\ run_unchanged

\* mutant: the results are taken as the tasks complete, not in submission order
RunCollectResult_AsCompleted ==
  /\ pc = "result"
  /\ \E u \in DOMAIN task :
       /\ task[u].pc = "done"
       /\ \A k \in DOMAIN events : EvFrame(events[k]) # u
       /\ events' = events \o Collected(u)
       /\ extracted_count' = Counted(u)
  /\ idx' = idx + 1
  /\ pc' = AfterDrain(idx + 1, i)
  /\ UNCHANGED <<frame_positions, extracted_hashes, i, task>>
  /\ run_unchanged

\* line 369-374: future.result() of the next future, its log, count and signals
RunCollectResult ==
  /\ pc = "result"
  /\ task[idx + 1].pc = "done"
  /\ events' = events \o Collected(idx + 1)
  /\ extracted_count' = Counted(idx + 1)
  /\ idx' = idx + 1
  /\ pc' = AfterDrain(idx + 1, i)
  /\ UNCHANGED <<frame_positions, extracted_hashes, i, task>>
  /\ run_unchanged

\* mutant: the serial loop without its stop check (line 378-379)
RunSerialCall_NoStopCheck ==
  /\ pc = "serial"
  /\ task' = [task EXCEPT ![i + 1].pc = "queued"]
  /\ i' = i + 1
  /\ pc' = "call"
  /\ UNCHANGED <<frame_positions, extracted_hashes, extracted_count, idx, events>>
  /\ run_unchanged

\* line 377-384: the stop check of the serial loop and the call of the task
RunSerialCall ==
  /\ pc = "serial"
  /\ IF stop
       THEN /\ pc' = "final"
            /\ UNCHANGED <<i, task>>
       ELSE /\ task' = [task EXCEPT ![i + 1].pc = "queued"]
            /\ i' = i + 1
            /\ pc' = "call"
  /\ UNCHANGED <<frame_positions, extracted_hashes, extracted_count, idx, events>>
  /\ run_unchanged

\* line 385-389: the returned triple of the serial call
RunSerialReturn ==
  /\ pc = "call"
  /\ task[i].pc = "done"
  /\ events' = events \o Collected(i)
  /\ extracted_count' = Counted(i)
  /\ idx' = i
  /\ pc' = IF i < total_frames THEN "serial" ELSE "final"
  /\ UNCHANGED <<frame_positions, extracted_hashes, i, task>>
  /\ run_unchanged

\* mutant: the summary of line 394-397 whatever the stop flag says
RunFinish_AlwaysCompleted ==
  /\ pc = "final"
  /\ \A t \in DOMAIN task : task[t].pc \in {"idle", "done"}
  /\ events' = events \o <<Log("rule"), Log("completed"), Finished(extracted_count)>>
  /\ pc' = "done"
  /\ UNCHANGED <<frame_positions, extracted_hashes, extracted_count, i, idx, task>>
  /\ run_unchanged

\* mutant: the summary waits for a result of every frame, submitted or not
RunFinish_WaitsForAllFrames ==
  /\ pc = "final"
  /\ \A t \in DOMAIN task : task[t].pc = "done"
  /\ events' = events
       \o (IF stop THEN <<Log("stopped")>> ELSE <<Log("rule"), Log("completed")>>)
       \o <<Finished(extracted_count)>>
  /\ pc' = "done"
  /\ UNCHANGED <<frame_positions, extracted_hashes, extracted_count, i, idx, task>>
  /\ run_unchanged

\* line 348 (leaving the with block waits for every submitted task) and 391-398
RunFinish ==
  /\ pc = "final"
  /\ \A t \in DOMAIN task : task[t].pc \in {"idle", "done"}
  /\ events' = events
       \o (IF stop THEN <<Log("stopped")>> ELSE <<Log("rule"), Log("completed")>>)
       \o <<Finished(extracted_count)>>
  /\ pc' = "done"
  /\ UNCHANGED <<frame_positions, extracted_hashes, extracted_count, i, idx, task>>
  /\ run_unchanged

run ==
  \/ RunSetup
  \/ RunAfterScan
  \/ RunSubmit
  \/ RunCollectCheck
  \/ RunCollectResult
  \/ RunSerialCall
  \/ RunSerialReturn
  \/ RunFinish

\* line 405-406 (called from MainWindow.stop_extract while the worker exists)
Stop ==
  /\ pc # "off"
  /\ ~stop
  /\ stop' = TRUE
  /\ stop_at' = pc
  /\ i_at_stop' = i
  /\ UNCHANGED <<config, pc, frame_positions, extracted_hashes, extracted_count, i,
                 idx, task, dirs, disk, events, first_run, ppk_vars, npk_vars, aux_vars>>

\* multiset of the content hashes of the artifacts the run has returned
ArtifactHashes ==
  [h \in Fingerprints |->
     Cardinality({t \in DOMAIN task : task[t].ret = "ok" /\ task[t].file_hash = h})]

\* multiset of the content hashes of the files under output_root
DiskHashes ==
  [h \in Fingerprints |-> Cardinality({q \in DOMAIN disk : md5(disk[q]) = h})]

\* MainWindow.start_extract (line 1505-1549) pressed again once the run has
\* ended: a new worker for the same input file, output folder and settings.
\* The new run binds its own set only at line 338: until then extracted_hashes
\* still shows what the earlier run left.
Rerun ==
  /\ pc = "done"
  /\ ~first_run.ended
  /\ first_run' = [ended |-> TRUE,
                   faults |-> \E t \in DOMAIN task : task[t].ret = "exception",
                   artifacts |-> ArtifactHashes, files |-> DiskHashes]
  /\ stop' = FALSE
  /\ pc' = "start"
  /\ frame_positions' = << >>
  /\ extracted_count' = 0
  /\ i' = 0
  /\ idx' = 0
  /\ task' = << >>
  /\ events' = << >>
  /\ stop_at' = "never"
  /\ i_at_stop' = -1
  /\ UNCHANGED <<config, extracted_hashes, dirs, disk, ppk_vars, npk_vars, aux_vars>>

\* ------------------------------------------------------------ specification
\* the locals of extract_zstd_container (line 127-149) and the output folder
NewNpk ==
  [pc |-> "off", FAST_MODE |-> FALSE, data |-> << >>, pos |-> 0,
   frame_positions |-> << >>, extracted_hashes |-> {}, extracted_count |-> 0,
   i |-> 0, task |-> << >>, disk |-> << >>]

\* the command line variant before extract_zstd_container is called
NpkIdle == npk = NewNpk

\* a payload before it reaches line 157: nothing classified yet
NewProbe ==
  [pc |-> "off", enable_type_detect |-> FALSE, frame_idx |-> 0,
   decompressed |-> << >>, ext |-> "", category |-> "", output_path |-> << >>]

\* MainWindow after __init__ (line 720-721, 1230-1236) and before it is shown.
\* worker and worker_thread hold the number of the run they refer to, 0 for
\* None; threads[r] is the QThread of run r with the _stop flag of its worker;
\* queue holds the slot calls posted to the GUI thread; dialog says a modal
\* message box is open; waiting is the thread QThread.wait() is blocked on;
\* handling and cleared are history: the run whose thread-finished handler ran
\* last, and the worker reference that handler found and set to None.
NewWin ==
  [open |-> FALSE, input |-> "empty", btn_start |-> TRUE, btn_stop |-> FALSE,
   worker |-> 0, worker_thread |-> 0, dialog |-> FALSE, waiting |-> 0,
   queue |-> << >>, threads |-> << >>, handling |-> 0, cleared |-> 0]

AuxIdle == probe = NewProbe /\ win = NewWin

\* the windowed variant before main is called
PpkIdle ==
  /\ ppk_files = << >>
  /\ DUPLICATE_MD5 = {}
  /\ ppk = << >>
  /\ ppk_disk = << >>
  /\ results = << >>
  /\ main_pc = "off"
  /\ totals = [total_processed |-> 0, total_extracted |-> 0, failed_files |-> 0]

\* line 285-294: the state of a worker right after construction
Init ==
  /\ fs \in {"ok", "input_missing", "output_uncreatable"}
  /\ data \in Containers
  /\ fast_mode \in BOOLEAN
  /\ max_threads \in 1..MaxThreads
  /\ enable_md5 \in BOOLEAN
  /\ enable_type_detect \in BOOLEAN
  /\ stop = FALSE
  /\ pc = "start"
  /\ frame_positions = << >>
  /\ extracted_hashes = {}
  /\ extracted_count = 0
  /\ i = 0
  /\ idx = 0
  /\ task = << >>
  /\ dirs = {}
  /\ disk = << >>
  /\ events = << >>
  /\ stop_at = "never"
  /\ i_at_stop = -1
  /\ first_run = NoRun
  /\ PpkIdle
  /\ NpkIdle
  /\ AuxIdle

\* ====================================== the windowed variant (PPKUnlocker)
PPK_MAX_THREADS == 4                    \* MAX_THREADS
MAX_BLOCK_SIZE == 20 * 1024 * 1024
MIN_BLOCK_SIZE == 1024                  \* the literal of line 122

\* A container of this variant is too long to be kept byte by byte: it is kept
\* as its sequence of segments, each one the signature, one code byte and
\* filler bytes that hold no signature, len bytes in all (len >= 5).
Seg(code, len) == [code |-> code, len |-> len]

SegSmall == Seg(CodePNG, 512)                   \* shorter than the threshold
SegPNG == Seg(CodePNG, 1024)
SegRaw == Seg(CodeRaw, 2048)
SegBad == Seg(0, 1024)                          \* does not decompress
SegHuge == Seg(CodePNG, MAX_BLOCK_SIZE + 100)   \* longer than the cap

PpkCatalogue ==
  { << >>,
    <<SegSmall, SegRaw>>,
    <<SegPNG, SegPNG>>,
    <<SegBad, SegRaw>>,
    <<SegHuge, SegRaw>> }

RECURSIVE FileLen(_)
FileLen(file) == IF file = << >> THEN 0 ELSE Head(file).len + FileLen(Tail(file))

\* offset of the signature that opens segment k
SegStart(file, k) == FileLen(SubSeq(file, 1, k - 1))

\* mutant: the search begins one byte behind pos
FindMagic_PastPos(file, pos) ==
  LET hits == {SegStart(file, k) : k \in DOMAIN file} \cap (pos + 1)..FileLen(file)
  IN  IF hits = {} THEN -1 ELSE CHOOSE h \in hits : \A g \in hits : h <= g

\* file_data.find(ZSTD_MAGIC, pos)
FindMagic(file, pos) ==
  LET hits == {SegStart(file, k) : k \in DOMAIN file} \cap pos..FileLen(file)
  IN  IF hits = {} THEN -1 ELSE CHOOSE h \in hits : \A g \in hits : h <= g

\* mutant: the cap of the block size is never applied
Min_First(a, b) == a

Min(a, b) == IF a <= b THEN a ELSE b

\* file_data[magic_pos:block_end] for a signature at magic_pos: the first
\* block_end - magic_pos bytes of the segment that starts there
BlockBytes(file, magic_pos, block_end) ==
  LET k == CHOOSE k \in DOMAIN file : SegStart(file, k) = magic_pos
  IN  Seg(file[k].code, Min(block_end, FileLen(file)) - magic_pos)

\* hashlib.md5(zstd_data).hexdigest(): differs for different block contents
block_md5(zstd_data) == <<(zstd_data.code * 7 + 5) % 256, zstd_data.len>>

\* dctx.decompress(zstd_data)
decompress_block(zstd_data) ==
  IF zstd_data.len < 5 THEN "ZstdError"
  ELSE decompress(ZSTD_MAGIC \o <<zstd_data.code>>)

NewPpk ==
  [pc |-> "idle", offset |-> 0, block_idx |-> 0, processed_blocks |-> 0,
   extracted_blocks |-> 0, magic_pos |-> 0, block_end |-> 0, status |-> "none",
   blocks |-> << >>, decoded |-> << >>]

\* history: a block of the container and what became of it ("small",
\* "duplicate", "zstd_error", "written", "write_error"); decoded lists the
\* offsets of the blocks dctx.decompress was called on (line 134)
Block(magic_pos, block_end, outcome) ==
  [start |-> magic_pos, end |-> block_end, outcome |-> outcome]

PpkRunning == {"scan", "dedup", "mark", "write"}

ppk_unchanged ==
  UNCHANGED <<gui_vars, npk_vars, aux_vars, ppk_files, results, main_pc, totals>>

\* line 90-102: a pool thread takes the task, reads the file, starts the scan
PpkOpen(f) ==
  /\ f \in DOMAIN ppk
  /\ ppk[f].pc = "queued"
  /\ Cardinality({g \in DOMAIN ppk : ppk[g].pc \in PpkRunning}) < PPK_MAX_THREADS
  /\ ppk' = [ppk EXCEPT ![f].pc = "scan"]
  /\ UNCHANGED <<DUPLICATE_MD5, ppk_disk>>
  /\ ppk_unchanged

\* mutant: the test of line 122 left out, short blocks go on to the dedup test
PpkScan_NoThreshold(f) ==
  /\ f \in DOMAIN ppk
  /\ ppk[f].pc = "scan"
  /\ LET file == ppk_files[f]
         magic_pos == IF ppk[f].offset < FileLen(file)
                      THEN FindMagic(file, ppk[f].offset) ELSE -1
         next_magic_pos == FindMagic(file, magic_pos + 4)
         block_end == Min(IF next_magic_pos # -1 THEN next_magic_pos
                          ELSE FileLen(file),
                          magic_pos + MAX_BLOCK_SIZE)
     IN  ppk' =
           IF magic_pos = -1
             THEN [ppk EXCEPT ![f].pc = "returned", ![f].status = "success"]
           ELSE [ppk EXCEPT ![f].processed_blocks = @ + 1,
                            ![f].magic_pos = magic_pos,
                            ![f].block_end = block_end,
                            ![f].pc = "dedup"]
  /\ UNCHANGED <<DUPLICATE_MD5, ppk_disk>>
  /\ ppk_unchanged

\* line 104-124 and 161-166: find the next block and count it; a block under
\* the threshold is passed over; with no signature left the task returns
PpkScan(f) ==
  /\ f \in DOMAIN ppk
  /\ ppk[f].pc = "scan"
  /\ LET file == ppk_files[f]
         magic_pos == IF ppk[f].offset < FileLen(file)
                      THEN FindMagic(file, ppk[f].offset) ELSE -1
         next_magic_pos == FindMagic(file, magic_pos + 4)
         block_end == Min(IF next_magic_pos # -1 THEN next_magic_pos
                          ELSE FileLen(file),
                          magic_pos + MAX_BLOCK_SIZE)
     IN  ppk' =
           IF magic_pos = -1
             THEN [ppk EXCEPT ![f].pc = "returned", ![f].status = "success"]
           ELSE IF block_end - magic_pos < MIN_BLOCK_SIZE
             THEN [ppk EXCEPT ![f].processed_blocks = @ + 1,
                              ![f].magic_pos = magic_pos,
                              ![f].block_end = block_end,
                              ![f].offset = block_end,
                              ![f].blocks =
                                 Append(@, Block(magic_pos, block_end, "small"))]
           ELSE [ppk EXCEPT ![f].processed_blocks = @ + 1,
                            ![f].magic_pos = magic_pos,
                            ![f].block_end = block_end,
                            ![f].pc = "dedup"]
  /\ UNCHANGED <<DUPLICATE_MD5, ppk_disk>>
  /\ ppk_unchanged

\* mutant: the block is decompressed before the membership test
PpkDedup_DecodesFirst(f) ==
  /\ f \in DOMAIN ppk
  /\ ppk[f].pc = "dedup"
  /\ LET zstd_data == BlockBytes(ppk_files[f], ppk[f].magic_pos, ppk[f].block_end)
     IN  ppk' = IF block_md5(zstd_data) \in DUPLICATE_MD5
                THEN [ppk EXCEPT ![f].pc = "scan", ![f].offset = ppk[f].block_end,
                                 ![f].decoded = Append(@, ppk[f].magic_pos),
                                 ![f].blocks =
                                    Append(@, Block(ppk[f].magic_pos, ppk[f].block_end,
                                                    "duplicate"))]
                ELSE [ppk EXCEPT ![f].pc = "mark"]
  /\ UNCHANGED <<DUPLICATE_MD5, ppk_disk>>
  /\ ppk_unchanged

\* mutant: the duplicate branch continues without moving offset
PpkDedup_StaysOnDuplicate(f) ==
  /\ f \in DOMAIN ppk
  /\ ppk[f].pc = "dedup"
  /\ LET zstd_data == BlockBytes(ppk_files[f], ppk[f].magic_pos, ppk[f].block_end)
     IN  ppk' = IF block_md5(zstd_data) \in DUPLICATE_MD5
                THEN [ppk EXCEPT ![f].pc = "scan",
                                 ![f].blocks =
                                    Append(@, Block(ppk[f].magic_pos, ppk[f].block_end,
                                                    "duplicate"))]
                ELSE [ppk EXCEPT ![f].pc = "mark"]
  /\ UNCHANGED <<DUPLICATE_MD5, ppk_disk>>
  /\ ppk_unchanged

\* line 127-130: the membership test of the global dedup set
PpkDedup(f) ==
  /\ f \in DOMAIN ppk
  /\ ppk[f].pc = "dedup"
  /\ LET zstd_data == BlockBytes(ppk_files[f], ppk[f].magic_pos, ppk[f].block_end)
     IN  ppk' = IF block_md5(zstd_data) \in DUPLICATE_MD5
                THEN [ppk EXCEPT ![f].pc = "scan", ![f].offset = ppk[f].block_end,
                                 ![f].blocks =
                                    Append(@, Block(ppk[f].magic_pos, ppk[f].block_end,
                                                    "duplicate"))]
                ELSE [ppk EXCEPT ![f].pc = "mark"]
  /\ UNCHANGED <<DUPLICATE_MD5, ppk_disk>>
  /\ ppk_unchanged

\* line 131-139: mark the fingerprint, then decompress the block
PpkMark(f) ==
  /\ f \in DOMAIN ppk
  /\ ppk[f].pc = "mark"
  /\ LET zstd_data == BlockBytes(ppk_files[f], ppk[f].magic_pos, ppk[f].block_end)
     IN  /\ DUPLICATE_MD5' = DUPLICATE_MD5 \cup {block_md5(zstd_data)}
         /\ ppk' = IF decompress_block(zstd_data) = "ZstdError"
                   THEN [ppk EXCEPT ![f].pc = "scan", ![f].offset = ppk[f].block_end,
                                    ![f].decoded = Append(@, ppk[f].magic_pos),
                                    ![f].blocks =
                                       Append(@, Block(ppk[f].magic_pos,
                                                       ppk[f].block_end, "zstd_error"))]
                   ELSE [ppk EXCEPT ![f].pc = "write",
                                    ![f].decoded = Append(@, ppk[f].magic_pos)]
  /\ UNCHANGED ppk_disk
  /\ ppk_unchanged

\* save_path of line 141-151: category folder, container name, block counter, extension
save_path(f, block_idx, decompressed) ==
  <<FILE_CATEGORY_MAP(detect_file_extension(decompressed)),
    <<f, "_block", block_idx, detect_file_extension(decompressed)>>>>

\* line 141-159: classify and write the payload, count it; when the folder or
\* the file cannot be written the exception ends the task (line 168-173)
PpkWrite(f) ==
  /\ f \in DOMAIN ppk
  /\ ppk[f].pc = "write"
  /\ LET zstd_data == BlockBytes(ppk_files[f], ppk[f].magic_pos, ppk[f].block_end)
         decompressed == decompress_block(zstd_data)
         path == save_path(f, ppk[f].block_idx, decompressed)
     IN  \/ /\ ppk_disk' = [q \in DOMAIN ppk_disk \cup {path} |->
                              IF q = path THEN decompressed ELSE ppk_disk[q]]
            /\ ppk' = [ppk EXCEPT ![f].extracted_blocks = @ + 1,
                                  ![f].block_idx = @ + 1,
                                  ![f].offset = ppk[f].block_end,
                                  ![f].pc = "scan",
                                  ![f].blocks =
                                     Append(@, Block(ppk[f].magic_pos, ppk[f].block_end,
                                                     "written"))]
         \/ /\ ppk_disk' = ppk_disk
            /\ ppk' = [ppk EXCEPT ![f].pc = "returned", ![f].status = "failed",
                                  ![f].blocks =
                                     Append(@, Block(ppk[f].magic_pos, ppk[f].block_end,
                                                     "write_error"))]
  /\ UNCHANGED DUPLICATE_MD5
  /\ ppk_unchanged

process_ppk_file(f) ==
  \/ PpkOpen(f)
  \/ PpkScan(f)
  \/ PpkDedup(f)
  \/ PpkMark(f)
  \/ PpkWrite(f)

main_unchanged ==
  UNCHANGED <<gui_vars, npk_vars, aux_vars, ppk_files, DUPLICATE_MD5, ppk_disk>>

\* line 217-236: list the containers, leave when there is none, submit them all
MainSubmit ==
  /\ main_pc = "start"
  /\ IF ppk_files = << >>
       THEN main_pc' = "done" /\ UNCHANGED ppk
       ELSE /\ ppk' = [f \in DOMAIN ppk_files |-> [NewPpk EXCEPT !.pc = "queued"]]
            /\ main_pc' = "collect"
  /\ UNCHANGED <<results, totals>>
  /\ main_unchanged

\* the dictionary a task returns (line 161-173)
Result(f) ==
  [file |-> f, status |-> ppk[f].status,
   processed |-> ppk[f].processed_blocks, extracted |-> ppk[f].extracted_blocks]

\* line 239-249: as_completed hands over a finished task, its result is kept
MainCollect(f) ==
  /\ f \in DOMAIN ppk
  /\ main_pc = "collect"
  /\ ppk[f].pc = "returned"
  /\ results' = Append(results, Result(f))
  /\ ppk' = [ppk EXCEPT ![f].pc = "collected"]
  /\ UNCHANGED <<main_pc, totals>>
  /\ main_unchanged

RECURSIVE SumOver(_, _)
SumOver(res, field) ==
  IF res = << >> THEN 0
  ELSE (IF Head(res).status = "success" THEN Head(res)[field] ELSE 0)
       + SumOver(Tail(res), field)

\* line 251-271: the totals over the successful results
MainTotals ==
  /\ main_pc = "collect"
  /\ Len(results) = Len(ppk_files)
  /\ totals' = [total_processed |-> SumOver(results, "processed"),
                total_extracted |-> SumOver(results, "extracted"),
                failed_files |->
                  Cardinality({k \in DOMAIN results : results[k].status # "success"})]
  /\ main_pc' = "done"
  /\ UNCHANGED <<results, ppk>>
  /\ main_unchanged

main ==
  \/ MainSubmit
  \/ \E f \in 1..MaxPpkFiles : MainCollect(f)
  \/ MainTotals

\* the worker of the desktop variant when only the windowed variant runs
GuiIdle ==
  /\ fs = "ok"
  /\ data = << >>
  /\ fast_mode = FALSE
  /\ max_threads = 1
  /\ enable_md5 = FALSE
  /\ enable_type_detect = FALSE
  /\ stop = FALSE
  /\ pc = "off"
  /\ frame_positions = << >>
  /\ extracted_hashes = {}
  /\ extracted_count = 0
  /\ i = 0
  /\ idx = 0
  /\ task = << >>
  /\ dirs = {}
  /\ disk = << >>
  /\ events = << >>
  /\ stop_at = "never"
  /\ i_at_stop = -1
  /\ first_run = NoRun

\* line 85 and 217-221: the module is loaded and the directory holds the containers
InitPPK ==
  /\ ppk_files \in UNION { [1..n -> PpkCatalogue] : n \in 0..MaxPpkFiles }
  /\ DUPLICATE_MD5 = {}
  /\ ppk = << >>
  /\ ppk_disk = << >>
  /\ results = << >>
  /\ main_pc = "start"
  /\ totals = [total_processed |-> 0, total_extracted |-> 0, failed_files |-> 0]
  /\ GuiIdle
  /\ NpkIdle
  /\ AuxIdle

\* Containers whose blocks lie at the edges of the block rule: a signature
\* with nothing behind it (4 bytes, at the end of the buffer or right in front
\* of the next signature), a block of exactly the cap, and a block cut by the
\* cap with a short rest and a signature behind it.
SegSig == Seg(0, 4)
SegCap == Seg(CodeRaw, MAX_BLOCK_SIZE)
EdgeCatalogue ==
  { <<SegSig, SegSig>>,
    <<SegHuge, SegSig, SegPNG>>,
    <<SegCap, SegPNG>>,
    <<SegPNG, SegSmall, SegPNG>> }

\* Containers that make the scan loop take each of its ways on: a block
\* written, a short block passed over, a duplicate skipped, a block that does
\* not decode, a signature alone at the end of the buffer.
ScanCatalogue ==
  { <<SegPNG, SegSmall, SegPNG>>,
    <<SegBad, SegSig>> }

\* line 85 and 217-221 with a directory that holds at least one container,
\* all of them from catalogue
InitDirectory(catalogue) ==
  /\ ppk_files \in UNION { [1..n -> catalogue] : n \in 1..MaxPpkFiles }
  /\ DUPLICATE_MD5 = {}
  /\ ppk = << >>
  /\ ppk_disk = << >>
  /\ results = << >>
  /\ main_pc = "start"
  /\ totals = [total_processed |-> 0, total_extracted |-> 0, failed_files |-> 0]
  /\ GuiIdle
  /\ NpkIdle
  /\ AuxIdle

InitBlocks == InitDirectory(EdgeCatalogue)

NextPPK ==
  \/ main
  \/ \E f \in 1..MaxPpkFiles : process_ppk_file(f)

\* ================================== the command line variant (NpkUnlocker)
NPK_MAX_THREADS == 8                    \* MAX_THREADS

\* pieces of a scanned buffer: the signature whole, cut short at either end,
\* and a byte that is not part of it
Pieces ==
  { ZSTD_MAGIC, SubSeq(ZSTD_MAGIC, 1, 1), SubSeq(ZSTD_MAGIC, 1, 3),
    SubSeq(ZSTD_MAGIC, 2, 4), <<0>> }

ScanBuffers ==
  { Concat(b) : b \in UNION { [1..n -> Pieces] : n \in 0..MaxPieces } }

NpkInputs == Containers \cup ScanBuffers

\* the most frames an input of the command line variant holds
MaxNpkFrames == IF MaxFrames > MaxPieces THEN MaxFrames ELSE MaxPieces

NewNpkTask ==
  [pc |-> "idle", ret |-> "none", decompressed |-> << >>, file_hash |-> << >>,
   ext |-> "", category |-> ""]

NpkRunning == {"dedup", "write", "add"}

npk_unchanged == UNCHANGED <<gui_vars, ppk_vars, aux_vars>>

\* mutant: the search resumes one byte too far behind a match
NpkScan_SkipsByte ==
  /\ npk.pc = "scan"
  /\ LET p == Find(npk.data, ZSTD_MAGIC, npk.pos)
     IN  npk' = IF p = -1 THEN [npk EXCEPT !.pos = p, !.pc = "scanned"]
                ELSE [npk EXCEPT !.frame_positions = Append(@, p),
                                 !.pos = p + Len(ZSTD_MAGIC) + 1]
  /\ npk_unchanged

\* line 135-141: one iteration of the scan loop
NpkScan ==
  /\ npk.pc = "scan"
  /\ LET p == Find(npk.data, ZSTD_MAGIC, npk.pos)
     IN  npk' = IF p = -1 THEN [npk EXCEPT !.pos = p, !.pc = "scanned"]
                ELSE [npk EXCEPT !.frame_positions = Append(@, p),
                                 !.pos = p + Len(ZSTD_MAGIC)]
  /\ npk_unchanged

\* line 144-162: the dedup set and the counter, the choice of the branch, and
\* in the threaded branch the submission of every frame
NpkBranch ==
  /\ npk.pc = "scanned"
  /\ npk' =
       IF npk.FAST_MODE /\ Len(npk.frame_positions) > 0
         THEN [npk EXCEPT !.extracted_hashes = {}, !.extracted_count = 0, !.i = 0,
                          !.task = [t \in DOMAIN npk.frame_positions |->
                                      [NewNpkTask EXCEPT !.pc = "queued"]],
                          !.pc = "collect"]
         ELSE [npk EXCEPT !.extracted_hashes = {}, !.extracted_count = 0, !.i = 0,
                          !.task = [t \in DOMAIN npk.frame_positions |-> NewNpkTask],
                          !.pc = "serial"]
  /\ npk_unchanged

\* a pool thread is free for task t and t is the oldest queued work item; the
\* serial branch calls the task directly
NpkWorkerFree(t) ==
  \/ npk.pc = "call"
  \/ /\ Cardinality({u \in DOMAIN npk.task : npk.task[u].pc \in NpkRunning})
          < NPK_MAX_THREADS
     /\ \A u \in DOMAIN npk.task : u < t => npk.task[u].pc # "queued"

NpkReturn(t, r) == [npk EXCEPT !.task[t].pc = "done", !.task[t].ret = r]

\* line 78-81 and 105-107: decompress data[frame_start:]
NpkDecompress(t) ==
  /\ t \in DOMAIN npk.task
  /\ npk.task[t].pc = "queued"
  /\ NpkWorkerFree(t)
  /\ LET r == decompress(Slice(npk.data, npk.frame_positions[t], Len(npk.data)))
     IN  npk' = IF r = "ZstdError" THEN NpkReturn(t, "zstd_error")
                ELSE [npk EXCEPT !.task[t].pc = "dedup", !.task[t].decompressed = r]
  /\ npk_unchanged

\* line 84-87: the fingerprint and the membership test
NpkDedup(t) ==
  /\ t \in DOMAIN npk.task
  /\ npk.task[t].pc = "dedup"
  /\ LET h == md5(npk.task[t].decompressed)
     IN  npk' = IF h \in npk.extracted_hashes
                THEN [NpkReturn(t, "duplicate") EXCEPT !.task[t].file_hash = h]
                ELSE [npk EXCEPT !.task[t].pc = "write", !.task[t].file_hash = h]
  /\ npk_unchanged

\* line 90-99: classify, make the category folder and write the payload; when
\* mkdir, open or write raises, line 108-110 returns False
NpkWrite(t) ==
  /\ t \in DOMAIN npk.task
  /\ npk.task[t].pc = "write"
  /\ LET ext == detect_file_extension(npk.task[t].decompressed)
         category == FILE_CATEGORY_MAP(ext)
         path == output_path(t, category, ext)
     IN  \/ npk' = [npk EXCEPT !.task[t].pc = "add", !.task[t].ext = ext,
                               !.task[t].category = category,
                               !.disk = [q \in DOMAIN npk.disk \cup {path} |->
                                           IF q = path THEN npk.task[t].decompressed
                                           ELSE npk.disk[q]]]
         \/ npk' = [NpkReturn(t, "exception") EXCEPT !.task[t].ext = ext,
                                                     !.task[t].category = category]
  /\ npk_unchanged

\* line 101-103: mark the fingerprint and return True
NpkAdd(t) ==
  /\ t \in DOMAIN npk.task
  /\ npk.task[t].pc = "add"
  /\ npk' = [NpkReturn(t, "ok") EXCEPT
               !.extracted_hashes = @ \cup {npk.task[t].file_hash}]
  /\ npk_unchanged

npk_extract_single_frame(t) ==
  \/ NpkDecompress(t)
  \/ NpkDedup(t)
  \/ NpkWrite(t)
  \/ NpkAdd(t)

\* the counter after the result of task t was read (line 166-167 and 173-174)
NpkCounted(t) ==
  IF npk.task[t].ret = "ok" THEN npk.extracted_count + 1 ELSE npk.extracted_count

\* line 165-167: future.result() of the next future, in submission order
NpkCollect ==
  /\ npk.pc = "collect"
  /\ npk.task[npk.i + 1].pc = "done"
  /\ npk' = [npk EXCEPT !.extracted_count = NpkCounted(npk.i + 1),
                        !.i = @ + 1,
                        !.pc = IF npk.i + 1 < Len(npk.frame_positions)
                               THEN "collect" ELSE "final"]
  /\ npk_unchanged

\* line 170-172: the serial loop calls the task of the next frame
NpkSerialCall ==
  /\ npk.pc = "serial"
  /\ npk' = IF npk.i < Len(npk.frame_positions)
            THEN [npk EXCEPT !.task[npk.i + 1].pc = "queued", !.pc = "call"]
            ELSE [npk EXCEPT !.pc = "final"]
  /\ npk_unchanged

\* line 172-174: the call returns and is counted
NpkSerialReturn ==
  /\ npk.pc = "call"
  /\ npk.task[npk.i + 1].pc = "done"
  /\ npk' = [npk EXCEPT !.extracted_count = NpkCounted(npk.i + 1),
                        !.i = @ + 1, !.pc = "serial"]
  /\ npk_unchanged

\* line 176-179: the summary and the returned count
NpkFinish ==
  /\ npk.pc = "final"
  /\ npk' = [npk EXCEPT !.pc = "done"]
  /\ npk_unchanged

extract_zstd_container ==
  \/ NpkScan
  \/ NpkBranch
  \/ NpkCollect
  \/ NpkSerialCall
  \/ NpkSerialReturn
  \/ NpkFinish

\* line 8 and 131-135: the switch as edited in the file, the container read
InitNPK ==
  /\ npk \in { [NewNpk EXCEPT !.pc = "scan", !.FAST_MODE = m, !.data = d] :
               m \in BOOLEAN, d \in NpkInputs }
  /\ GuiIdle
  /\ PpkIdle
  /\ AuxIdle

NextNPK ==
  \/ extract_zstd_container
  \/ \E t \in 1..MaxNpkFrames : npk_extract_single_frame(t)

\* ======================================== the classification step on its own
\* Payloads for the classifier: every signature whole and cut one byte short,
\* the RIFF header with and without WAVE at offset 8, an empty payload and a
\* payload of one zero byte ...
CutShort(magic) == SubSeq(magic, 1, Len(magic) - 1)
Prefixes ==
  {MESH_MAGIC, PNG_MAGIC, KTX_MAGIC, DDS_MAGIC, BKHD_MAGIC, AKPK_MAGIC, ZSTD_MAGIC}
Heads ==
  { << >>, <<0>> }
    \cup Prefixes
    \cup { CutShort(m) : m \in Prefixes }
    \cup { RIFF_MAGIC, RIFF_MAGIC \o <<0, 0, 0, 0>> \o WAVE_MAGIC,
           RIFF_MAGIC \o <<0, 0, 0, 0>> \o CutShort(WAVE_MAGIC),
           RIFF_MAGIC \o <<0, 0, 0>> \o WAVE_MAGIC }

\* ... each alone, followed by the TGA trailer, by the trailer cut short and
\* by the trailer with one more byte behind it
Tails ==
  { << >>, TGA_TAIL_MAGIC, CutShort(TGA_TAIL_MAGIC), TGA_TAIL_MAGIC \o <<0>> }

ProbePayloads == { h \o t : h \in Heads, t \in Tails }

\* mutant: the classifier is called whatever enable_type_detect says
ProbeClassify_AlwaysDetects ==
  /\ probe.pc = "classify"
  /\ probe' = [probe EXCEPT !.ext = detect_file_extension(probe.decompressed),
                            !.pc = "bucket"]
  /\ UNCHANGED <<gui_vars, ppk_vars, npk_vars, win>>

\* line 157-160: the label of the payload, empty when detection is off
ProbeClassify ==
  /\ probe.pc = "classify"
  /\ probe' = [probe EXCEPT !.ext = IF probe.enable_type_detect
                                    THEN detect_file_extension(probe.decompressed)
                                    ELSE "",
                            !.pc = "bucket"]
  /\ UNCHANGED <<gui_vars, ppk_vars, npk_vars, win>>

\* line 162-166: the bucket of the label, the file name and the output path
ProbeBucket ==
  /\ probe.pc = "bucket"
  /\ probe' = [probe EXCEPT
                 !.category = FILE_CATEGORY_MAP(probe.ext),
                 !.output_path = output_path(probe.frame_idx + 1,
                                             FILE_CATEGORY_MAP(probe.ext), probe.ext),
                 !.pc = "done"]
  /\ UNCHANGED <<gui_vars, ppk_vars, npk_vars, win>>

\* extract_single_frame called with a payload just decompressed
InitProbe ==
  /\ probe \in { [NewProbe EXCEPT !.pc = "classify", !.enable_type_detect = e,
                                  !.frame_idx = n, !.decompressed = d] :
                  e \in BOOLEAN, n \in 0..(MaxFrames - 1), d \in ProbePayloads }
  /\ win = NewWin
  /\ GuiIdle
  /\ PpkIdle
  /\ NpkIdle

NextProbe == ProbeClassify \/ ProbeBucket

\* ============================================ the main window (MainWindow)
win_unchanged == UNCHANGED <<gui_vars, ppk_vars, npk_vars, probe>>

\* the GUI thread is in an event loop (not blocked in QThread.wait)
GuiReady == win.open /\ win.waiting = 0

\* the GUI thread gets to the user's input: the slot calls posted before it
\* have been made
InputReady == GuiReady /\ win.queue = << >>

\* the main window takes clicks: no modal message box is open
UserReady == InputReady /\ ~win.dialog

Alive == {r \in DOMAIN win.threads : win.threads[r].state # "finished"}

Post(q, kind, r) == Append(q, <<kind, r>>)

HeadIs(kind) == win.queue # << >> /\ Head(win.queue)[1] = kind

\* line 1505-1549: the start button.  With no usable input file a message box
\* is shown and nothing else happens; otherwise the buttons are switched and a
\* new thread and worker are created, referenced and started
StartExtract ==
  /\ UserReady
  /\ win.btn_start
  /\ \/ /\ win.input # "ok"
        /\ win' = [win EXCEPT !.dialog = TRUE]
     \/ /\ win.input = "ok"
        /\ Len(win.threads) < MaxRuns
        /\ win' = [win EXCEPT
                     !.btn_start = FALSE,
                     !.btn_stop = TRUE,
                     !.worker_thread = Len(win.threads) + 1,
                     !.worker = Len(win.threads) + 1,
                     !.threads = Append(@, [state |-> "running", stop |-> FALSE])]
  /\ win_unchanged

\* line 1551-1555 and 405-406: the stop button
StopExtract ==
  /\ UserReady
  /\ win.btn_stop
  /\ win' = [win EXCEPT
               !.threads = IF win.worker # 0
                           THEN [@ EXCEPT ![win.worker].stop = TRUE] ELSE @,
               !.btn_stop = FALSE]
  /\ win_unchanged

\* line 297-403 seen from the window: run returns after it has emitted
\* finished_signal or error_signal once; the slots connected at line 1544-1547
\* (extract_finished or extract_error, then QThread.quit) are posted to the GUI
\* thread in connection order and the worker thread goes back to its event loop
WorkerEmits(r) ==
  /\ r \in DOMAIN win.threads
  /\ win.threads[r].state = "running"
  /\ \E sig \in {"extract_finished", "extract_error"} :
       win' = [win EXCEPT !.threads[r].state = "emitted",
                          !.queue = Post(Post(@, sig, r), "quit", r)]
  /\ win_unchanged

\* line 1579-1588: extract_finished
ExtractFinished ==
  /\ GuiReady
  /\ HeadIs("extract_finished")
  /\ win' = [win EXCEPT !.btn_start = TRUE, !.btn_stop = FALSE, !.dialog = TRUE,
                        !.queue = Tail(@)]
  /\ win_unchanged

\* line 1590-1596: extract_error
ExtractError ==
  /\ GuiReady
  /\ HeadIs("extract_error")
  /\ win' = [win EXCEPT !.btn_start = TRUE, !.btn_stop = FALSE, !.dialog = TRUE,
                        !.queue = Tail(@)]
  /\ win_unchanged

\* the user closes the message box of line 1512, 1515, 1586 or 1596
DialogClose ==
  /\ InputReady
  /\ win.dialog
  /\ win' = [win EXCEPT !.dialog = FALSE]
  /\ win_unchanged

\* line 1546-1547: QThread.quit called in the GUI thread, the event loop of
\* the worker thread is told to return
ThreadQuit ==
  /\ GuiReady
  /\ HeadIs("quit")
  /\ win' = [win EXCEPT !.threads[Head(win.queue)[2]].state = "quitting",
                        !.queue = Tail(@)]
  /\ win_unchanged

\* the worker thread leaves its event loop and ends: QThread.finished is
\* emitted and on_thread_finished (line 1548) is posted to the GUI thread
ThreadExits(r) ==
  /\ r \in DOMAIN win.threads
  /\ win.threads[r].state = "quitting"
  /\ win' = [win EXCEPT !.threads[r].state = "finished",
                        !.queue = Post(@, "thread_finished", r)]
  /\ win_unchanged

\* line 1561-1564: the references are dropped and the buttons switched
Dropped(w) ==
  [w EXCEPT !.cleared = w.worker, !.worker = 0, !.worker_thread = 0,
            !.btn_start = TRUE, !.btn_stop = FALSE, !.waiting = 0]

\* line 1557-1564: on_thread_finished; wait() is called on the thread that
\* worker_thread refers to now and blocks the GUI thread until it has ended
OnThreadFinished ==
  /\ GuiReady
  /\ HeadIs("thread_finished")
  /\ LET w == [win EXCEPT !.queue = Tail(@), !.handling = Head(win.queue)[2]]
     IN  win' = IF /\ win.worker_thread # 0
                   /\ win.threads[win.worker_thread].state # "finished"
                THEN [w EXCEPT !.waiting = win.worker_thread]
                ELSE Dropped(w)
  /\ win_unchanged

\* line 1560-1564: wait() returns once the thread has ended
OnThreadFinishedResume ==
  /\ win.waiting # 0
  /\ win.threads[win.waiting].state = "finished"
  /\ win' = Dropped(win)
  /\ win_unchanged

\* the window is shown; the input field is empty, names no file, or names a file
InitWindow ==
  /\ win \in { [NewWin EXCEPT !.open = TRUE, !.input = f] :
               f \in {"empty", "missing", "ok"} }
  /\ probe = NewProbe
  /\ GuiIdle
  /\ PpkIdle
  /\ NpkIdle

NextWindow ==
  \/ StartExtract
  \/ StopExtract
  \/ \E r \in 1..MaxRuns : WorkerEmits(r)
  \/ ExtractFinished
  \/ ExtractError
  \/ DialogClose
  \/ ThreadQuit
  \/ \E r \in 1..MaxRuns : ThreadExits(r)
  \/ OnThreadFinished
  \/ OnThreadFinishedResume

Next ==
  \/ run
  \/ \E t \in 1..MaxFrames : extract_single_frame(t)
  \/ Stop

vars == <<gui_vars, ppk_vars, npk_vars, aux_vars>>

Spec == Init /\ [][Next]_vars

\* two runs with dedup enabled on the same input and output, never cancelled
InitTwice == Init /\ fs = "ok" /\ enable_md5
NextTwice ==
  \/ run
  \/ \E t \in 1..MaxFrames : extract_single_frame(t)
  \/ Rerun
SpecTwice == InitTwice /\ [][NextTwice]_vars

SpecPPK == InitPPK /\ [][NextPPK]_vars

\* the windowed variant on a directory of containers from EdgeCatalogue
SpecBlocks == InitBlocks /\ [][NextPPK]_vars

SpecNPK == InitNPK /\ [][NextNPK]_vars

\* The command line variant on a scanned buffer, or the windowed variant on
\* containers of ScanCatalogue; the threads of the program that runs are
\* scheduled: as long as one of them can take a step, a step is taken.
InitScans == InitNPK \/ InitDirectory(ScanCatalogue)
NextScans == NextNPK \/ NextPPK
SpecScans == InitScans /\ [][NextScans]_vars /\ WF_vars(NextScans)

SpecProbe == InitProbe /\ [][NextProbe]_vars

SpecWindow == InitWindow /\ [][NextWindow]_vars

\* a step of the worker thread or of one of the pool threads
Threads == run \/ \E t \in 1..MaxFrames : extract_single_frame(t)

\* The worker thread and the pool threads are operating system threads and
\* every single step of run and of extract_single_frame (a decompression, a
\* write) ends: as long as one of them can take a step, a step is taken.
\* stop() is the user's doing: nothing says it is ever called.
Fairness == WF_vars(Threads)

\* a worker built by a window whose settings are the defaults of line 1530-1531
InitFair == Init /\ enable_md5 /\ enable_type_detect
SpecFair == InitFair /\ [][Next]_vars /\ Fairness

\* any of the three programs, started from its own initial state
InitTools == Init \/ InitPPK \/ InitNPK
NextTools == Next \/ NextPPK \/ NextNPK
SpecTools == InitTools /\ [][NextTools]_vars

\* either program, started from its own initial state
InitAll == Init \/ InitPPK
NextAll == Next \/ NextPPK
SpecAll == InitAll /\ [][NextAll]_vars

\* ================================================= views of a worker's run
IsFile(e) == EvSig(e) = "file"
IsProgress(e) == EvSig(e) = "progress"
IsFinished(e) == EvSig(e) = "finished"
IsFrameLog(e) == EvSig(e) = "log" /\ EvFrame(e) > 0
IsIncrement(e) == EvSig(e) = "progress" /\ EvN(e) > 0

FileEvents == SelectSeq(events, IsFile)
ProgressEvents == SelectSeq(events, IsProgress)
FinishedEvents == SelectSeq(events, IsFinished)
FrameLogs == SelectSeq(events, IsFrameLog)
Increments == SelectSeq(events, IsIncrement)

HasLog(text) == \E k \in DOMAIN events : EvSig(events[k]) = "log" /\ EvText(events[k]) = text

Stopped == pc = "done" /\ HasLog("stopped")
Completed == pc = "done" /\ HasLog("completed")

TasksWith(r) == {t \in DOMAIN task : task[t].ret = r}
TasksDone == {t \in DOMAIN task : task[t].pc = "done"}

\* frames of the container whose stream decompresses
Decodable ==
  {t \in DOMAIN frame_positions :
     decompress(Slice(data, frame_positions[t], Len(data))) # "ZstdError"}

\* positions of run that lie in the Extracting state of the pipeline
ExtractingPcs == {"submit", "collect", "result", "serial", "call", "final"}

\* ------------------------------------------------------------------- C1
\* C1: with dedup enabled under the parallel policy, two tasks whose payloads
\* have the same fingerprint never both pass the dedup check and both produce
\* an artifact (at most one admission per distinct fingerprint).
C1_AtMostOneAdmission ==
  (fast_mode /\ enable_md5) =>
    \A t, u \in DOMAIN task :
      (t # u /\ task[t].ret = "ok" /\ task[u].ret = "ok")
        => task[t].file_hash # task[u].file_hash

\* ------------------------------------------------------------------- C2
\* C2: when a run ends in Stopped, the count carried by the finished event
\* equals the number of payload files the run has written, and every written
\* file has had its artifact event emitted.
C2_StoppedCountsWritten ==
  Stopped =>
    /\ EvN(FinishedEvents[Len(FinishedEvents)]) = Cardinality(DOMAIN disk)
    /\ \A p \in DOMAIN disk :
         \E k \in DOMAIN FileEvents :
           output_path(EvFrame(FileEvents[k]), EvCategory(FileEvents[k]),
                       EvText(FileEvents[k])) = p

\* ------------------------------------------------------------------- C3
\* The phases of a task the pipeline description names (the dedup membership
\* test belongs to the fingerprint phase, marking to the write phase).
IsNamedPhase(ph) == ph \in {"check", "extract", "fingerprint", "classify", "write"}
NamedPhases(t) == SelectSeq(task[t].phases, IsNamedPhase)
IsPrefix(s, full) == Len(s) <= Len(full) /\ s = SubSeq(full, 1, Len(s))

\* C3 as stated: three polls per task, placed check -> extract -> check ->
\* fingerprint + dedup check -> check -> classify -> write.
C3_ThreeCheckpoints ==
  \A t \in DOMAIN task :
    task[t].ret = "ok" =>
      NamedPhases(t) = <<"check", "extract", "check", "fingerprint", "check",
                         "classify", "write">>

\* the order the code has: four polls, two of them ahead of the decompression
\* and the last one between classification and the write
CodeOrder ==
  <<"check", "check", "extract", "check", "fingerprint", "classify", "check", "write">>

\* C3 amended: every task polls the stop flag at four checkpoints, in the order
\* check -> check -> extract -> check -> fingerprint + dedup check -> classify
\* -> check -> write; no poll lies between the dedup check and classification.
C3_FourCheckpoints ==
  \A t \in DOMAIN task :
    /\ IsPrefix(NamedPhases(t), CodeOrder)
    /\ task[t].ret = "ok" => NamedPhases(t) = CodeOrder
    /\ task[t].ret = "duplicate" => NamedPhases(t) = SubSeq(CodeOrder, 1, 5)

C3_Witness ==
  \E t \in DOMAIN task : task[t].ret = "ok" /\ enable_md5 /\ enable_type_detect

\* ------------------------------------------------------------------- C4
\* C4 as stated: serial policy, cancellation requested after N of M frames were
\* dispatched: exactly N artifacts and N log entries precede the stopped
\* terminal event and the other M-N frames produce no event.
C4_SerialExactlyN ==
  (~fast_mode /\ Stopped) =>
    /\ Len(FileEvents) = i_at_stop
    /\ Len(FrameLogs) = i_at_stop
    /\ \A k \in DOMAIN events : EvFrame(events[k]) <= i_at_stop

\* C4 amended: exactly N log entries and N progress increments precede the
\* stopped terminal event, the artifacts are those of the dispatched frames that
\* returned success (at most N), and the other M-N frames produce no log,
\* progress or artifact event and write nothing.
C4_SerialAtMostN ==
  (~fast_mode /\ Stopped) =>
    /\ Len(FrameLogs) = i_at_stop
    /\ Len(Increments) = i_at_stop
    /\ Len(FileEvents) = Cardinality(TasksWith("ok"))
    /\ Len(FileEvents) <= i_at_stop
    /\ \A k \in DOMAIN events : EvFrame(events[k]) <= i_at_stop
    /\ \A k \in DOMAIN ProgressEvents : EvN(ProgressEvents[k]) <= i_at_stop
    /\ \A t \in DOMAIN task : t > i_at_stop => task[t] = NewTask
    /\ \A p \in DOMAIN disk : p[2][2] <= i_at_stop

C4_Witness ==
  /\ ~fast_mode
  /\ Stopped
  /\ i_at_stop = 1
  /\ total_frames >= 2
  /\ Len(FileEvents) = 1

\* ------------------------------------------------------------------- C5
TwoPngFrames == FramePNG \o FramePNG

\* C5: a container of two frames that both decompress to the 4-byte PNG
\* signature yields exactly 1 artifact with dedup enabled and exactly 2 with
\* dedup disabled, every artifact in the image category.
C5_TwoPngFramesScenario ==
  (data = TwoPngFrames /\ enable_type_detect /\ Completed
     /\ TasksWith("exception") = {}) =>
    /\ Len(FileEvents) = (IF enable_md5 THEN 1 ELSE 2)
    /\ EvN(FinishedEvents[1]) = (IF enable_md5 THEN 1 ELSE 2)
    /\ \A k \in DOMAIN FileEvents : EvCategory(FileEvents[k]) = "image"

\* ------------------------------------------------------------------- C6
\* C6: in every reachable state the extracted count never exceeds the number
\* of frame locations the scanner reported, and so do the artifact signals,
\* the written files and the count of the finished signal; in the windowed
\* variant extracted blocks <= processed blocks per container and in total.
C6_ExtractedAtMostFound ==
  [](
    /\ extracted_count <= idx /\ idx <= i /\ i <= total_frames
    /\ Len(FileEvents) = extracted_count
    /\ Cardinality(TasksWith("ok")) <= total_frames
    /\ Cardinality(DOMAIN disk) <= total_frames
    /\ \A k \in DOMAIN FinishedEvents : EvN(FinishedEvents[k]) <= total_frames
    /\ \A f \in DOMAIN ppk : ppk[f].extracted_blocks <= ppk[f].processed_blocks
    /\ \A k \in DOMAIN results : results[k].extracted <= results[k].processed
    /\ totals.total_extracted <= totals.total_processed
    /\ \A f \in DOMAIN ppk :
         Cardinality({q \in DOMAIN ppk_disk : q[2][1] = f}) <= ppk[f].processed_blocks)

\* every scanned frame became an artifact: the bound is met
C6_Witness ==
  /\ pc = "done"
  /\ total_frames >= 2
  /\ extracted_count = total_frames
  /\ EvN(FinishedEvents[1]) = total_frames

\* ------------------------------------------------------------------- C7
\* C7 as stated: dedup disabled and no cancellation: the number of artifacts
\* equals the number of frames that decompressed successfully.
C7_NoDedupCountsDecoded ==
  (~enable_md5 /\ Completed) =>
    /\ EvN(FinishedEvents[1]) = Cardinality(Decodable)
    /\ Len(FileEvents) = Cardinality(Decodable)

\* C7 amended: dedup disabled and no cancellation: the number of artifacts
\* equals the number of frames that decompressed successfully and whose task
\* raised no exception while writing, whatever their contents; each artifact
\* belongs to exactly one such frame and each such frame has its file.
C7_NoDedupCountsWritten ==
  (~enable_md5 /\ Completed) =>
    /\ EvN(FinishedEvents[1]) = Cardinality(Decodable \ TasksWith("exception"))
    /\ Len(FileEvents) = Cardinality(Decodable \ TasksWith("exception"))
    /\ {EvFrame(FileEvents[k]) : k \in DOMAIN FileEvents}
         = Decodable \ TasksWith("exception")
    /\ \A t \in Decodable \ TasksWith("exception") :
         /\ output_path(t, task[t].category, task[t].ext) \in DOMAIN disk
         /\ disk[output_path(t, task[t].category, task[t].ext)]
              = decompress(Slice(data, frame_positions[t], Len(data)))

\* two frames with identical content, both written
C7_Witness ==
  /\ ~enable_md5
  /\ Completed
  /\ \E t, u \in Decodable :
       t # u /\ task[t].decompressed = task[u].decompressed
       /\ task[t].ret = "ok" /\ task[u].ret = "ok"

\* ------------------------------------------------------------------- C8
\* C8: exactly one progress increment is emitted per completed task (success,
\* duplicate-skip and decode-failure all count), and under the serial policy
\* in dispatch order.
C8_OneIncrementPerCompletedTask ==
  pc = "done" =>
    /\ \A t \in TasksWith("ok") \cup TasksWith("duplicate") \cup TasksWith("zstd_error") :
         Cardinality({k \in DOMAIN Increments : EvN(Increments[k]) = t}) = 1
    /\ ~fast_mode => \A k \in DOMAIN Increments : EvN(Increments[k]) = k

\* ------------------------------------------------------------------- C9
\* C9: parallel policy, cancellation never requested: the last progress event
\* reports done = total = number of scanned frames, and the finished count is
\* the number of tasks that returned success.
C9_ParallelTotals ==
  (fast_mode /\ pc = "done" /\ fs = "ok" /\ stop_at \in {"never", "done"}) =>
    /\ Len(FinishedEvents) = 1
    /\ EvN(FinishedEvents[1]) = Cardinality(TasksWith("ok"))
    /\ Len(Increments) = total_frames
    /\ total_frames > 0 =>
         /\ EvN(ProgressEvents[Len(ProgressEvents)]) = total_frames
         /\ EvTotal(ProgressEvents[Len(ProgressEvents)]) = total_frames
         /\ total_frames = Len(scan_zstd_frames(data))

C9_Witness ==
  /\ fast_mode
  /\ pc = "done"
  /\ stop_at = "never"
  /\ total_frames >= 2
  /\ TasksWith("ok") # {}
  /\ TasksWith("zstd_error") # {}

\* ------------------------------------------------------------------ C10
\* C10: the completion summary is emitted only when every dispatched task has
\* finished and cancellation was never requested during the run; a run in
\* which cancellation was requested during Extracting ends in Stopped.
C10_CompletedOnlyIfNeverStopped ==
  /\ HasLog("completed") =>
       /\ stop_at \in {"never", "done"}
       /\ pc = "done"
       /\ i = total_frames /\ idx = total_frames
       /\ \A t \in DOMAIN task : task[t].pc = "done"
       /\ EvN(events[Len(events)]) = extracted_count
  /\ (pc = "done" /\ stop_at \in ExtractingPcs) =>
       HasLog("stopped") /\ ~HasLog("completed")

C10_Witness ==
  /\ pc = "done"
  /\ stop_at = "final"
  /\ HasLog("stopped")
  /\ \A t \in DOMAIN task : task[t].ret = "ok"
  /\ total_frames >= 1

\* ------------------------------------------------------------------- C11
IsTerminal(e) == EvSig(e) \in {"finished", "error"}
TerminalEvents == SelectSeq(events, IsTerminal)

\* C11: the terminal result of a run is produced exactly once: a run that has
\* ended has emitted exactly one terminal event (finished or error, never both,
\* never two), a run that has not ended has emitted none, and no log, progress
\* or artifact event follows the terminal event.
C11_OneTerminalEvent ==
  /\ Len(TerminalEvents) <= 1
  /\ (pc = "done") <=> (Len(TerminalEvents) = 1)
  /\ \A k \in DOMAIN events : IsTerminal(events[k]) => k = Len(events)

\* a run stopped right after the scan, and one stopped while extracting
C11_Witness ==
  /\ pc = "done"
  /\ stop_at \in {"start", "collect"}
  /\ Len(FinishedEvents) = 1
  /\ total_frames >= 1

\* ------------------------------------------------------------------- C12
NeverStopped == stop_at \in {"never", "done"}

\* the run has ended with a finished signal and no stop message
EndedNormally ==
  /\ pc = "done"
  /\ Len(FinishedEvents) = 1
  /\ ~HasLog("stopped")
  /\ ~HasLog("stopped_after_scan")

\* a frame log of the worker about frame t with the given status
HasFrameLog(t, text) ==
  \E k \in DOMAIN events :
    IsFrameLog(events[k]) /\ EvFrame(events[k]) = t /\ EvText(events[k]) = text

\* blocks of container f with the given outcome
BlocksWith(f, outcome) ==
  {b \in DOMAIN ppk[f].blocks : ppk[f].blocks[b].outcome = outcome}

\* The blocks of container f that the task names in anything it prints or
\* returns: the except clause of line 137-139 prints and records nothing, and
\* the result of line 161-166 carries the two counters only.
PpkBlockReports(f) == {}

\* the part of C12 about recovery: a frame or block that fails to decompress
\* is skipped and the run goes on with the remaining ones; one signature with
\* too few bytes after it completes with 0 artifacts and no error event
C12_Recoverable ==
  /\ (pc = "done" /\ fs = "ok" /\ NeverStopped) =>
       /\ EndedNormally
       /\ \A k \in DOMAIN events : EvSig(events[k]) # "error"
       /\ \A t \in DOMAIN frame_positions :
            /\ task[t].pc = "done"
            /\ t \notin Decodable =>
                 task[t].ret = "zstd_error" /\ HasFrameLog(t, "zstd_error")
       /\ data = FrameCut =>
            /\ total_frames = 1
            /\ HasFrameLog(1, "zstd_error")
            /\ EvN(FinishedEvents[1]) = 0
            /\ FileEvents = << >>
            /\ disk = << >>
  /\ \A f \in DOMAIN ppk :
       (ppk[f].pc = "returned" /\ BlocksWith(f, "write_error") = {}) =>
         /\ ppk[f].status = "success"
         /\ Len(ppk[f].blocks) = Len(ppk_files[f])
         /\ ppk[f].processed_blocks = Len(ppk_files[f])

\* C12: a decompression failure at a scanned offset is a recoverable per-task
\* error: it is reported for that frame, the task is skipped, and the run
\* continues with the remaining frames (desktop worker and windowed variant);
\* one signature followed by too few bytes completes with 0 artifacts and no
\* fatal error event.
C12_DecodeFailureReported ==
  /\ C12_Recoverable
  /\ \A f \in DOMAIN ppk : BlocksWith(f, "zstd_error") \subseteq PpkBlockReports(f)

\* ------------------------------------------------------------------- C13
\* C13: an unrecoverable setup error (source file missing, or output root that
\* cannot be created) moves the run to Failed without processing any frame: the
\* error event is the only event, no scan result, progress, artifact or
\* finished event is emitted, no task is created and no file is written.
C13_SetupErrorAborts ==
  fs # "ok" =>
    /\ pc \in {"start", "done"}
    /\ pc = "start" => events = << >>
    /\ pc = "done" => Len(events) = 1 /\ EvSig(events[1]) = "error"
    /\ frame_positions = << >>
    /\ task = << >>
    /\ extracted_count = 0
    /\ dirs = {}
    /\ disk = << >>

\* the output root could not be created for a container that holds frames
C13_Witness ==
  /\ fs = "output_uncreatable"
  /\ pc = "done"
  /\ scan_zstd_frames(data) # << >>

\* ------------------------------------------------------------------- C14
\* desktop worker: a task that raised is logged, has no file and no artifact
\* event, and every other frame was still processed
TaskOnlyDesktop ==
  (pc = "done" /\ fs = "ok" /\ NeverStopped) =>
    /\ EndedNormally
    /\ \A t \in DOMAIN frame_positions : task[t].pc = "done"
    /\ \A t \in TasksWith("exception") :
         /\ HasFrameLog(t, "exception")
         /\ output_path(t, task[t].category, task[t].ext) \notin DOMAIN disk
         /\ \A k \in DOMAIN FileEvents : EvFrame(FileEvents[k]) # t

\* command line variant: the same, and only the tasks that returned True count
TaskOnlyCommandLine ==
  npk.pc = "done" =>
    /\ \A t \in DOMAIN npk.frame_positions : npk.task[t].pc = "done"
    /\ \A t \in DOMAIN npk.task :
         npk.task[t].ret = "exception" =>
           output_path(t, npk.task[t].category, npk.task[t].ext)
             \notin DOMAIN npk.disk
    /\ npk.extracted_count
         = Cardinality({t \in DOMAIN npk.task : npk.task[t].ret = "ok"})

\* C14: after the scan an unexpected exception inside one extraction task
\* (directory creation, file write, any other step) is fatal to that task
\* only: the task reports failure, nothing of it is written or counted, and
\* every remaining frame or block is still processed (desktop worker, command
\* line variant and windowed variant); it never ends the rest of the container.
C14_ExceptionFatalToTaskOnly ==
  /\ TaskOnlyDesktop
  /\ TaskOnlyCommandLine
  /\ \A f \in DOMAIN ppk :
       ppk[f].pc = "returned" =>
         /\ ppk[f].status = "success"
         /\ Len(ppk[f].blocks) = Len(ppk_files[f])
         /\ ppk[f].processed_blocks = Len(ppk_files[f])

\* ------------------------------------------------------------------- C15
\* neither run had a task that raised while writing
NoFaults == ~first_run.faults /\ TasksWith("exception") = {}

\* C15: running the pipeline with dedup enabled twice on the same input yields
\* the same multiset of artifact content hashes as running it once, under
\* either execution policy: the second run returns the artifacts the first
\* one returned and leaves under the output folder what the first one left.
C15_DedupRunsIdempotent ==
  (first_run.ended /\ pc = "done" /\ NoFaults) =>
    /\ ArtifactHashes = first_run.artifacts
    /\ DiskHashes = first_run.files

\* the serial half of C15
C15_SerialRunsIdempotent == ~fast_mode => C15_DedupRunsIdempotent

\* ------------------------------------------------------------------- C16
\* the frames the serial branch (line 170-174) writes when nothing raises:
\* frame t of positions onward, seen being the fingerprints marked so far
RECURSIVE SerialWritten(_, _, _, _)
SerialWritten(d, positions, t, seen) ==
  IF t > Len(positions) THEN {}
  ELSE LET r == decompress(Slice(d, positions[t], Len(d)))
       IN  IF r = "ZstdError" THEN SerialWritten(d, positions, t + 1, seen)
           ELSE IF md5(r) \in seen THEN SerialWritten(d, positions, t + 1, seen)
           ELSE {t} \cup SerialWritten(d, positions, t + 1, seen \cup {md5(r)})

NpkTasksWith(r) == {t \in DOMAIN npk.task : npk.task[t].ret = r}

\* the output of a finished call is the output of the serial branch
SameAsSerial ==
  (npk.pc = "done" /\ NpkTasksWith("exception") = {}) =>
    LET serial == SerialWritten(npk.data, npk.frame_positions, 1, {})
    IN  /\ NpkTasksWith("ok") = serial
        /\ {q[2][2] : q \in DOMAIN npk.disk} = serial
        /\ npk.extracted_count = Cardinality(serial)

\* the serial branch does write what SerialWritten says
C16_SerialBranch == ~npk.FAST_MODE => SameAsSerial

\* C16: the threaded branch of extract_zstd_container (FAST_MODE = True) gives
\* exactly the output of the serial branch: for every input the same set of
\* frames is written to disk and the same extracted count is returned.
C16_FastModeSameOutput == npk.FAST_MODE => SameAsSerial

\* ------------------------------------------------------------------- C17
\* the blocks <<container, offset, fingerprint>> that passed the membership
\* test of line 128: those being marked or written now and those of the history
\* that went on to decompression
Admitted ==
  { <<f, ppk[f].magic_pos,
      block_md5(BlockBytes(ppk_files[f], ppk[f].magic_pos, ppk[f].block_end))>> :
      f \in {g \in DOMAIN ppk : ppk[g].pc \in {"mark", "write"}} }
  \cup
  UNION { { <<f, ppk[f].blocks[b].start,
              block_md5(BlockBytes(ppk_files[f], ppk[f].blocks[b].start,
                                   ppk[f].blocks[b].end))>> :
              b \in BlocksWith(f, "zstd_error") \cup BlocksWith(f, "written")
                      \cup BlocksWith(f, "write_error") } :
          f \in DOMAIN ppk }

\* C17: the global dedup set DUPLICATE_MD5 is thread-safe: of the blocks with
\* the same fingerprint met by concurrent process_ppk_file tasks exactly one
\* proceeds to decompression and writing, all others are skipped.
C17_OneAdmissionPerFingerprint ==
  \A a, b \in Admitted : a # b => a[3] # b[3]

\* ------------------------------------------------------------------- C18
\* the 0-based offsets at which the 4-byte signature occurs in d
Occurrences(d) ==
  {o \in 0..(Len(d) - Len(ZSTD_MAGIC)) :
     SubSeq(d, o + 1, o + Len(ZSTD_MAGIC)) = ZSTD_MAGIC}

StrictlyAscending(seq) ==
  \A a, b \in DOMAIN seq : a < b => seq[a] < seq[b]

\* seq lists exactly the members of set, smallest first
ListsAscending(seq, set) ==
  /\ StrictlyAscending(seq)
  /\ {seq[a] : a \in DOMAIN seq} = set
  /\ Len(seq) = Cardinality(set)

\* C18: the scan returns exactly the offsets of all occurrences of the 4-byte
\* signature in the buffer, in strictly ascending order, the index being the
\* discovery order: every returned offset is an occurrence and no occurrence
\* is skipped (the loop of extract_zstd_container and scan_zstd_frames).
C18_ScanFindsAllOccurrences ==
  npk.pc # "off" =>
    /\ ListsAscending(scan_zstd_frames(npk.data), Occurrences(npk.data))
    /\ npk.pc = "scan" =>
         ListsAscending(npk.frame_positions,
                        {o \in Occurrences(npk.data) : o < npk.pos})
    /\ npk.pc # "scan" =>
         /\ ListsAscending(npk.frame_positions, Occurrences(npk.data))
         /\ npk.frame_positions = scan_zstd_frames(npk.data)

\* a scanned buffer with bytes ahead of two signatures that touch
C18_Witness ==
  /\ npk.pc = "done"
  /\ Len(npk.frame_positions) >= 2
  /\ npk.frame_positions[1] > 0
  /\ npk.frame_positions[2] = npk.frame_positions[1] + Len(ZSTD_MAGIC)

\* ------------------------------------------------------------------- C19
\* offsets of the signatures of a container
Signatures(file) == {SegStart(file, k) : k \in DOMAIN file}

\* the least member of a non-empty set of offsets
Least(set) == CHOOSE o \in set : \A q \in set : o <= q

\* where the block that starts at start_offset ends: at the next signature,
\* or at the end of the buffer when there is none, but no further than
\* max_block_size bytes from its start
WindowEnd(file, start_offset) ==
  LET later == {o \in Signatures(file) : o > start_offset}
      next_or_end == IF later = {} THEN FileLen(file) ELSE Least(later)
      capped == start_offset + MAX_BLOCK_SIZE
  IN  IF next_or_end < capped THEN next_or_end ELSE capped

\* the first signature at or behind offset (the container must hold one)
Resume(file, offset) == Least({o \in Signatures(file) : o >= offset})

\* C19: in windowed mode each block handed to decompression is exactly the
\* byte range [start_offset, end_offset) where end_offset is the smaller of
\* the next signature offset (the buffer end when there is none) and
\* start_offset + max_block_size, and scanning resumes at end_offset.
C19_WindowedBlockRange ==
  \A f \in DOMAIN ppk :
    LET file == ppk_files[f]
        blocks == ppk[f].blocks
    IN  /\ \A b \in DOMAIN blocks :
             /\ blocks[b].start \in Signatures(file)
             /\ blocks[b].end = WindowEnd(file, blocks[b].start)
             /\ blocks[b].start = Resume(file, IF b = 1 THEN 0 ELSE blocks[b - 1].end)
        /\ ppk[f].pc \in {"dedup", "mark", "write"} =>
             /\ ppk[f].magic_pos \in Signatures(file)
             /\ ppk[f].block_end = WindowEnd(file, ppk[f].magic_pos)
             /\ ppk[f].magic_pos = Resume(file, ppk[f].offset)
             /\ BlockBytes(file, ppk[f].magic_pos, ppk[f].block_end).len
                  = ppk[f].block_end - ppk[f].magic_pos
             /\ BlockBytes(file, ppk[f].magic_pos, ppk[f].block_end).code
                  = file[CHOOSE k \in DOMAIN file :
                           SegStart(file, k) = ppk[f].magic_pos].code
        /\ (ppk[f].pc \in {"scan", "dedup", "mark", "write"} /\ blocks # << >>) =>
             ppk[f].offset = blocks[Len(blocks)].end
        /\ (ppk[f].pc = "returned" /\ ppk[f].status = "success") =>
             {o \in Signatures(file) : o >= ppk[f].offset} = {}

\* a block cut by the cap, and the scan resumed at its end to find the next one
C19_Witness ==
  \E f \in DOMAIN ppk :
    /\ Len(ppk[f].blocks) >= 2
    /\ ppk[f].blocks[1].end = ppk[f].blocks[1].start + MAX_BLOCK_SIZE
    /\ ppk[f].blocks[2].start > ppk[f].blocks[1].end
    /\ ppk[f].blocks[2].outcome = "written"

\* ------------------------------------------------------------------- C20
\* the bytes of block b of the history of container f
HistoryBytes(f, b) ==
  BlockBytes(ppk_files[f], ppk[f].blocks[b].start, ppk[f].blocks[b].end)

\* the task of container f is past the threshold test with a block in hand
InHand(f) == ppk[f].pc \in {"dedup", "mark", "write"}

\* C20: in windowed mode a block shorter than the minimum size threshold
\* (1024 bytes) is discarded before any fingerprinting or decompression is
\* attempted: it changes neither the dedup index nor the extracted count and
\* writes no file, though it still counts as processed; a 512-byte block
\* between two signatures is discarded this way.
C20_ShortBlockDiscarded ==
  \A f \in DOMAIN ppk :
    /\ InHand(f) => ppk[f].block_end - ppk[f].magic_pos >= MIN_BLOCK_SIZE
    /\ \A b \in DOMAIN ppk[f].blocks :
         /\ (ppk[f].blocks[b].end - ppk[f].blocks[b].start < MIN_BLOCK_SIZE)
              <=> (ppk[f].blocks[b].outcome = "small")
         /\ ppk[f].blocks[b].outcome = "small" =>
              block_md5(HistoryBytes(f, b)) \notin DUPLICATE_MD5
    /\ ppk[f].processed_blocks
         = Len(ppk[f].blocks) + (IF InHand(f) THEN 1 ELSE 0)
    /\ ppk[f].extracted_blocks = Cardinality(BlocksWith(f, "written"))
    /\ ppk[f].block_idx = Cardinality(BlocksWith(f, "written"))
    /\ Cardinality({q \in DOMAIN ppk_disk : q[2][1] = f})
         = Cardinality(BlocksWith(f, "written"))

\* a 512-byte block between two signatures, passed over, and the block behind
\* it written
C20_Witness ==
  \E f \in DOMAIN ppk :
    /\ ppk[f].pc = "returned"
    /\ ppk[f].status = "success"
    /\ Len(ppk[f].blocks) = 2
    /\ ppk[f].blocks[1].outcome = "small"
    /\ ppk[f].blocks[1].end - ppk[f].blocks[1].start = 512
    /\ ppk[f].blocks[2].start = ppk[f].blocks[1].end
    /\ ppk[f].blocks[2].outcome = "written"
    /\ ppk[f].processed_blocks = 2
    /\ ppk[f].extracted_blocks = 1

\* ------------------------------------------------------------------- C21
Range(seq) == {seq[n] : n \in DOMAIN seq}

\* x is one of the elements of seq
Occurs(seq, x) == \E n \in DOMAIN seq : seq[n] = x

\* x occurs in seq ahead of every occurrence of y
Precedes(seq, x, y) ==
  \E n \in DOMAIN seq : seq[n] = x /\ \A m \in 1..n : seq[m] # y

\* the blocks of container f that went past the membership test
PastTest(f) ==
  BlocksWith(f, "zstd_error") \cup BlocksWith(f, "written")
    \cup BlocksWith(f, "write_error")

\* windowed mode (PPKUnlocker line 126-139): every fingerprint of the index is
\* the digest of a raw block, a block found in the index is passed over with
\* no call of decompress, every other block of full size is decompressed
WindowedOrder ==
  /\ \A h \in DUPLICATE_MD5 :
       \E f \in DOMAIN ppk :
         \/ \E b \in PastTest(f) : h = block_md5(HistoryBytes(f, b))
         \/ /\ ppk[f].pc = "write"
            /\ h = block_md5(BlockBytes(ppk_files[f], ppk[f].magic_pos,
                                        ppk[f].block_end))
  /\ \A f \in DOMAIN ppk :
       /\ \A b \in BlocksWith(f, "duplicate") \cup BlocksWith(f, "small") :
            ppk[f].blocks[b].start \notin Range(ppk[f].decoded)
       /\ \A b \in PastTest(f) : ppk[f].blocks[b].start \in Range(ppk[f].decoded)
       /\ ppk[f].pc \in {"dedup", "mark"} =>
            ppk[f].magic_pos \notin Range(ppk[f].decoded)

\* unbounded mode (NpkUnlock_GUI line 144-155): the fingerprint is the digest
\* of the decompressed payload and the membership test comes after decompress
UnboundedOrder ==
  \A t \in DOMAIN task :
    /\ Occurs(task[t].phases, "fingerprint") =>
         /\ task[t].file_hash = md5(task[t].decompressed)
         /\ task[t].decompressed \in Payloads
         /\ Precedes(task[t].phases, "extract", "fingerprint")
    /\ Occurs(task[t].phases, "dedup") =>
         Precedes(task[t].phases, "fingerprint", "dedup")
    /\ task[t].ret = "duplicate" => Occurs(task[t].phases, "extract")

\* C21: in windowed mode the fingerprint is taken over the raw compressed
\* block and the dedup check runs before decompression, so a block whose
\* fingerprint is found in the index is skipped without any decompression
\* attempt; in unbounded mode the fingerprint is taken over the decompressed
\* payload and the dedup check runs after decompression.
C21_FingerprintOrder == WindowedOrder /\ UnboundedOrder

\* a container of the windowed variant with one block written and the next,
\* of the same bytes, skipped as a duplicate with one decompress call in all
C21_Witness ==
  \E f \in DOMAIN ppk :
    /\ Len(ppk[f].blocks) = 2
    /\ ppk[f].blocks[1].outcome = "written"
    /\ ppk[f].blocks[2].outcome = "duplicate"
    /\ ppk[f].decoded = <<ppk[f].blocks[1].start>>

\* ------------------------------------------------------------------- C22
\* the checks of the classifier in the priority order of the claim, each with
\* its label and whether it matches d (a payload)
Chain(d) ==
  << [label |-> ".mesh", hit |-> HasPrefix(d, MESH_MAGIC)],
     [label |-> ".png", hit |-> HasPrefix(d, PNG_MAGIC)],
     [label |-> ".ktx", hit |-> HasPrefix(d, KTX_MAGIC)],
     [label |-> ".dds", hit |-> HasPrefix(d, DDS_MAGIC)],
     [label |-> ".wem", hit |-> /\ Len(d) >= 12
                                /\ SubSeq(d, 1, 4) = RIFF_MAGIC
                                /\ SubSeq(d, 9, 12) = WAVE_MAGIC],
     [label |-> ".bnk", hit |-> HasPrefix(d, BKHD_MAGIC)],
     [label |-> ".npk", hit |-> HasPrefix(d, AKPK_MAGIC)],
     [label |-> ".zst", hit |-> HasPrefix(d, ZSTD_MAGIC)],
     [label |-> ".tga", hit |-> HasSuffix(d, TGA_TAIL_MAGIC)] >>

Hits(d) == {k \in 1..9 : Chain(d)[k].hit}

FirstMatch(d) ==
  IF Hits(d) = {} THEN "" ELSE Chain(d)[Least(Hits(d))].label

\* the payload of the probe has been classified with detection on
Classified == probe.pc \in {"bucket", "done"} /\ probe.enable_type_detect

\* C22: classify applies a first-match chain in the fixed priority order
\* mesh, PNG, KTX, DDS (3-byte prefix), RIFF/WAVE audio, audio bank, package,
\* compressed frame, TGA (18-byte trailer), unknown (empty label): the label
\* returned is that of the first check in this order that matches, so the
\* trailer decides only when no prefix check matched, and an empty payload
\* yields the empty label.
C22_FirstMatchChain ==
  Classified =>
    /\ probe.ext = FirstMatch(probe.decompressed)
    /\ probe.ext = ".tga" <=> Hits(probe.decompressed) = {9}
    /\ probe.decompressed = << >> => probe.ext = ""

\* a payload that opens with the PNG signature and ends with the TGA trailer
\* has been labelled by its prefix
C22_Witness ==
  /\ Classified
  /\ probe.decompressed = PNG_MAGIC \o TGA_TAIL_MAGIC
  /\ probe.ext = ".png"

\* ------------------------------------------------------------------- C23
\* the six category buckets (FILE_CATEGORY_MAP line 69-80)
Buckets == {"audio", "image", "mesh", "package", "compressed", "unknown"}

\* the labels the lookup has an entry for, the empty label apart
MappedLabels ==
  {".wem", ".bnk", ".png", ".dds", ".ktx", ".tga", ".mesh", ".npk", ".zst"}

\* C23: every artifact is placed in exactly one of the six fixed category
\* buckets (audio, image, mesh, package, compressed, unknown) determined by a
\* fixed lookup on its label; an empty or unmapped label goes to the unknown
\* bucket, and when enable_type_detect is false classification is skipped and
\* every payload is bucketed as unknown with an empty extension.
C23_SixBuckets ==
  /\ \A l \in MappedLabels \cup {"", ".bin"} :
       /\ FILE_CATEGORY_MAP(l) \in Buckets
       /\ l \notin MappedLabels => FILE_CATEGORY_MAP(l) = "unknown"
  /\ probe.pc = "done" =>
       /\ probe.category \in Buckets
       /\ probe.category = FILE_CATEGORY_MAP(probe.ext)
       /\ probe.output_path = <<probe.category,
                                output_filename(probe.frame_idx + 1, probe.ext)>>
       /\ probe.ext \in MappedLabels \cup {""}
       /\ probe.ext = "" => probe.category = "unknown"
       /\ ~probe.enable_type_detect =>
            probe.ext = "" /\ probe.category = "unknown"

\* a payload with the PNG signature bucketed with detection off
C23_Witness ==
  /\ probe.pc = "done"
  /\ ~probe.enable_type_detect
  /\ probe.decompressed = PNG_MAGIC
  /\ probe.category = "unknown"
  /\ probe.output_path = <<"unknown", output_filename(probe.frame_idx + 1, "")>>

\* ------------------------------------------------------------------- C24
\* the tasks that have gone past line 149-155 (fingerprint and membership test)
PastDedup ==
  {t \in DOMAIN task : "fingerprint" \in Range(task[t].phases)}

\* C24: when dedup is disabled every frame is admitted unconditionally and no
\* fingerprint bookkeeping occurs: the dedup index stays empty for the whole
\* run and no task ever ends as a duplicate-skip.
C24_DedupDisabled ==
  ~enable_md5 /\ pc # "off" =>
    /\ extracted_hashes = {}
    /\ TasksWith("duplicate") = {}
    /\ \A t \in PastDedup :
         /\ "dedup" \notin Range(task[t].phases)
         /\ "mark" \notin Range(task[t].phases)
         /\ task[t].pc \in {"classify", "write", "add", "done"}
         /\ task[t].pc = "done" =>
              task[t].ret \in {"ok", "int_not_written", "exception"}

\* dedup disabled, the run over, two frames with the same payload both written
C24_Witness ==
  /\ ~enable_md5
  /\ pc = "done"
  /\ \E t, u \in TasksWith("ok") :
       /\ t # u
       /\ task[t].file_hash = task[u].file_hash
  /\ Cardinality(DOMAIN disk) = 2

\* ------------------------------------------------------------------- C25
\* the tasks of the run in progress are dispatched: its set is bound (line 338)
SetBound == pc \in ExtractingPcs \/ (pc = "done" /\ task # << >>)

\* the fingerprints the tasks of this run have marked (line 174)
MarkedThisRun ==
  {task[t].file_hash : t \in {u \in DOMAIN task : "mark" \in Range(task[u].phases)}}

\* a step of a run in progress removes no fingerprint
IndexGrows == pc \in ExtractingPcs => (extracted_hashes \subseteq extracted_hashes')

\* C25: the dedup index is reset at the start of each run and only grows
\* during it: a fingerprint admitted in one run never causes a frame of a
\* later run to be skipped as duplicate, and no fingerprint is ever removed
\* while a run is in progress.
C25_IndexPerRun ==
  /\ [](SetBound =>
          /\ extracted_hashes = MarkedThisRun
          /\ \A t \in TasksWith("duplicate") : task[t].file_hash \in MarkedThisRun)
  /\ [][IndexGrows]_vars

\* the second run has written a frame whose fingerprint the first run admitted
C25_Witness ==
  /\ first_run.ended
  /\ pc = "done"
  /\ \E t \in TasksWith("ok") :
       /\ first_run.artifacts[task[t].file_hash] > 0
       /\ extracted_hashes = {task[t].file_hash}

\* ------------------------------------------------------------------- C26
\* the tasks whose file has been written (line 171-172)
Wrote == {t \in DOMAIN task : "write" \in Range(task[t].phases) /\ task[t].ret # "exception"}

\* the path the task of frame t writes to (line 162-166)
PathOf(t) == output_path(t, task[t].category, task[t].ext)

\* the files of the windowed variant that come from container f
FilesOf(f) == {q \in DOMAIN ppk_disk : q[2][1] = f}

\* C26: the output path of an artifact is <output_root>/<category>/<generated
\* filename>, the file name a function of the frame's sequence index and
\* detected extension (plus container name and in-container block counter in
\* the multi-source variant); within one run two distinct frames or blocks
\* never receive the same output path, so no task overwrites another task's
\* file.
C26_DistinctOutputPaths ==
  [](
    /\ \A t, u \in Wrote : t # u => PathOf(t) # PathOf(u)
    /\ DOMAIN disk = {PathOf(t) : t \in Wrote}
    /\ Cardinality(DOMAIN disk) = Cardinality(Wrote)
    /\ \A t \in Wrote :
         /\ disk[PathOf(t)] = task[t].decompressed
         /\ PathOf(t) = <<FILE_CATEGORY_MAP(task[t].ext), <<"extracted_frame_", t, task[t].ext>>>>
    /\ \A f \in DOMAIN ppk :
         /\ Cardinality(FilesOf(f)) = Cardinality(BlocksWith(f, "written"))
         /\ \A q \in FilesOf(f) :
              /\ q[1] \in Buckets
              /\ q[2][3] \in 0..(ppk[f].block_idx - 1)
              /\ q = save_path(f, q[2][3], ppk_disk[q])
    /\ \A q \in DOMAIN ppk_disk : \E f \in DOMAIN ppk : q \in FilesOf(f))

\* two frames with the same payload written side by side in one folder
C26_Witness ==
  /\ pc = "done"
  /\ \E t, u \in Wrote :
       /\ t # u
       /\ task[t].category = task[u].category
       /\ task[t].ext = task[u].ext
       /\ task[t].decompressed = task[u].decompressed
  /\ Cardinality(DOMAIN disk) = 2

\* ------------------------------------------------------------------- C27
\* the statuses of the four polls (line 136, 142, 147 and 169), each with the
\* number of polls a task has made when it returns it
InterruptedAt ==
  [r \in {"int_not_started", "int_skip_decompress", "int_after_decompress",
          "int_not_written"} |->
     CASE r = "int_not_started" -> 1
       [] r = "int_skip_decompress" -> 2
       [] r = "int_after_decompress" -> 3
       [] r = "int_not_written" -> 4]

IsCheck(ph) == ph = "check"
Polls(t) == Len(SelectSeq(task[t].phases, IsCheck))

\* task t has returned from a poll of the stop flag
EndedAtPoll(t) ==
  /\ task[t].pc = "done"
  /\ task[t].phases # << >>
  /\ task[t].phases[Len(task[t].phases)] = "check"

\* C27: each cancellation checkpoint of a task yields its own distinctly
\* worded interrupted-at-this-phase status: no two checkpoints produce the
\* same status, so the phase at which a task was interrupted can be
\* determined from the status alone.
C27_StatusNamesCheckpoint ==
  /\ \A t \in DOMAIN task :
       /\ EndedAtPoll(t) <=> task[t].ret \in DOMAIN InterruptedAt
       /\ EndedAtPoll(t) => Polls(t) = InterruptedAt[task[t].ret]
  /\ \A k \in DOMAIN events :
       EvText(events[k]) \in DOMAIN InterruptedAt =>
         /\ IsFrameLog(events[k])
         /\ Polls(EvFrame(events[k])) = InterruptedAt[EvText(events[k])]

\* one run with a task interrupted at the last poll, its status logged, and
\* another interrupted at the first
C27_Witness ==
  /\ pc = "done"
  /\ \E t, u \in DOMAIN task :
       /\ task[t].ret = "int_not_written"
       /\ task[u].ret = "int_not_started"
       /\ HasFrameLog(t, "int_not_written")

\* ------------------------------------------------------------------- C28
\* the results of a task that wrote no file or did not finish the write
NoFileResults ==
  {"int_not_started", "int_skip_decompress", "int_after_decompress",
   "int_not_written", "zstd_error", "duplicate", "exception"}

\* every fingerprint of the index is the digest of a file on disk that a task
\* of this run has written (desktop task and command line task)
IndexedAreWritten ==
  /\ \A h \in extracted_hashes :
       \E t \in Wrote : task[t].file_hash = h /\ md5(disk[PathOf(t)]) = h
  /\ \A h \in npk.extracted_hashes :
       \E t \in DOMAIN npk.task :
         /\ npk.task[t].ret = "ok"
         /\ npk.task[t].file_hash = h
         /\ \E q \in DOMAIN npk.disk : q[2][2] = t /\ md5(npk.disk[q]) = h

\* a step in which a task returns without a file leaves the index as it was
FailureKeepsIndex ==
  /\ \A t \in DOMAIN task :
       (t \in DOMAIN task' /\ task'[t].ret # task[t].ret
          /\ task'[t].ret \in NoFileResults)
         => extracted_hashes' = extracted_hashes
  /\ \A t \in DOMAIN npk.task :
       (t \in DOMAIN npk'.task /\ npk'.task[t].ret # npk.task[t].ret
          /\ npk'.task[t].ret \in NoFileResults)
         => npk'.extracted_hashes = npk.extracted_hashes

\* C28: in unbounded mode a fingerprint enters the dedup index only after the
\* file for its payload has been written: in every reachable state each
\* fingerprint in the index is the hash of a file written in this run, and a
\* task that is cancelled at any checkpoint, fails to decode, is skipped as
\* duplicate or fails during write leaves the index unchanged.
C28_MarkedAfterWrite == []IndexedAreWritten /\ [][FailureKeepsIndex]_vars

\* dedup on: one frame written and marked, another failed during the write
\* and its fingerprint is not in the index
C28_Witness ==
  /\ enable_md5
  /\ pc = "done"
  /\ \E t, u \in DOMAIN task :
       /\ task[t].ret = "ok"
       /\ task[u].ret = "exception"
       /\ extracted_hashes = {task[t].file_hash}
       /\ task[u].file_hash \notin extracted_hashes

\* ------------------------------------------------------------------- C29
\* C29: in the desktop controller at most one extraction worker is active at
\* any time and a stop request always sets the cancellation flag of the worker
\* that is currently running: for every interleaving of start, stop, the
\* worker's finished/error event and the worker thread's finished event, a new
\* run cannot be started while a previous worker thread is still alive, and
\* the thread-finished handler of an earlier run never clears or waits on the
\* reference to a later run's worker.
C29_OneWorkerThread ==
  /\ Cardinality(Alive) <= 1
  /\ win.waiting # 0 => win.waiting <= win.handling
  /\ win.cleared <= win.handling
  /\ \A r \in DOMAIN win.threads :
       (win.threads[r].state = "running" /\ ~win.btn_stop /\ ~win.btn_start)
         => win.threads[r].stop

\* ------------------------------------------------------------------- C30
\* the signals of the result loop (line 366-374): frame logs, file signals and
\* the progress signals behind them
IsPerFrame(e) == IsFrameLog(e) \/ IsFile(e) \/ IsIncrement(e)
PerFrame == SelectSeq(events, IsPerFrame)

\* the frame a signal of the result loop is about
FrameOf(e) == IF IsProgress(e) THEN EvN(e) ELSE EvFrame(e)

\* position of a signal within the signals of one frame: log, file, progress
Rank(e) == IF IsFrameLog(e) THEN 1 ELSE IF IsFile(e) THEN 2 ELSE 3

\* signal e comes before signal f in dispatch order: an earlier frame, or the
\* same frame and an earlier position
Before(e, f) ==
  \/ FrameOf(e) < FrameOf(f)
  \/ FrameOf(e) = FrameOf(f) /\ Rank(e) < Rank(f)

\* every signal of s comes before its successor (Before is transitive, so
\* every signal then comes before all later ones)
Ascending(s) == \A a \in 1..(Len(s) - 1) : Before(s[a], s[a + 1])

\* the k-th progress signal of s reports k - first of `total`
CountsFrom(s, first, total) ==
  \A k \in DOMAIN s : EvN(s[k]) = k - first /\ EvTotal(s[k]) = total

\* the k-th frame log of s is about frame k
LogsInOrder(s) == \A k \in DOMAIN s : EvFrame(s[k]) = k

\* C30: under the parallel policy of the desktop pipeline, log, artifact and
\* progress events are emitted in ascending frame-index (dispatch) order
\* regardless of the order in which pool tasks complete, because results are
\* drained from the futures in submission order; the k-th progress event of
\* the result loop reports done = k (the progress signals of a run are
\* 0, 1, 2, ...: the first of all is the one of line 340, sent before the loop).
C30_EventsInDispatchOrder ==
  fast_mode =>
    /\ Ascending(PerFrame)
    /\ CountsFrom(Increments, 0, total_frames)
    /\ LogsInOrder(FrameLogs)
    /\ Len(Increments) = idx
    /\ Len(FrameLogs) = idx
    /\ CountsFrom(ProgressEvents, 1, total_frames)

\* the pool has finished frame 2 while frame 1 is still being extracted: the
\* run waits for the result of frame 1 and no signal for frame 2 is out
C30_Witness ==
  /\ fast_mode
  /\ pc = "result"
  /\ idx = 0
  /\ Len(task) = 2
  /\ task[1].pc \in Running
  /\ task[2].pc = "done"
  /\ task[2].ret = "ok"
  /\ PerFrame = << >>

\* ------------------------------------------------------------------- C31
\* the pool is left: no submitted task is queued or running any more
PoolLeft == \A t \in DOMAIN task : task[t].pc \in {"idle", "done"}

\* the run has ended and its one terminal signal is out
Ended == pc = "done" /\ Len(TerminalEvents) = 1 /\ PoolLeft

PollPcs == {"queued", "c2", "decompress", "classify"}

\* task t takes a step that polls the stop flag and finds it set (a frame that
\* fails to decode returns at line 191-193 and does not reach the poll)
SeesStop(t) ==
  /\ stop
  /\ t \in DOMAIN task
  /\ t \in DOMAIN task'
  /\ task[t].pc \in PollPcs
  /\ task'[t].pc # task[t].pc
  /\ task[t].pc = "decompress" =>
       decompress(Slice(data, frame_positions[t], Len(data))) # "ZstdError"

\* the step in which a task sees the flag set is its last: it returns an
\* interrupted status and leaves index and files alone; a task that starts
\* with the flag set returns at its first poll
ReturnsAtPoll ==
  \A t \in 1..MaxFrames :
    SeesStop(t) =>
      /\ task'[t].pc = "done"
      /\ task'[t].ret \in DOMAIN InterruptedAt
      /\ task[t].pc = "queued" => task'[t].ret = "int_not_started"
      /\ extracted_hashes' = extracted_hashes
      /\ disk' = disk

\* a task that has returned an interrupted status has decompressed at most
\* once and before the poll, has not written, has marked no fingerprint, and
\* no file carries its frame index
CancelledIsInert ==
  \A t \in DOMAIN task :
    task[t].ret \in DOMAIN InterruptedAt =>
      /\ EndedAtPoll(t)
      /\ ~Occurs(task[t].phases, "write")
      /\ ~Occurs(task[t].phases, "mark")
      /\ Len(SelectSeq(task[t].phases, LAMBDA ph : ph = "extract")) <= 1
      /\ \A q \in DOMAIN disk : q[2][2] # t
      /\ task[t].ret = "int_not_started" => task[t].phases = <<"check">>

\* C32: a task that observes the cancellation token set at one of its
\* checkpoints has no further effect: it performs no later decompression, does
\* not modify the dedup index, writes no file and returns a non-success
\* result; every task that starts after the token was set writes nothing, and
\* no file write begins after a checkpoint of the same task has seen the
\* token set.
C32_CancelledTaskInert == []CancelledIsInert /\ [][ReturnsAtPoll]_vars

\* a task stopped at its last poll: its payload is decompressed and its
\* category folder made, and there is no file of it
C32_Witness ==
  /\ pc = "done"
  /\ \E t \in DOMAIN task :
       /\ task[t].ret = "int_not_written"
       /\ task[t].category \in dirs
       /\ task[t].decompressed \in Payloads
       /\ \A q \in DOMAIN disk : q[2][2] # t

\* ------------------------------------------------------------------- C33
\* the fingerprint of the block the task of container f has in hand
HandMd5(f) ==
  block_md5(BlockBytes(ppk_files[f], ppk[f].magic_pos, ppk[f].block_end))

\* every block that was handed to decompress (line 134), whether it decoded,
\* was written or failed, has its fingerprint in the index
MarkedStays ==
  \A f \in DOMAIN ppk :
    /\ \A b \in PastTest(f) : block_md5(HistoryBytes(f, b)) \in DUPLICATE_MD5
    /\ ppk[f].pc = "write" => HandMd5(f) \in DUPLICATE_MD5

\* a step keeps every fingerprint, and a block tested (line 128) when its
\* fingerprint is in the index is passed over without a call of decompress
SkipsMarked ==
  /\ DUPLICATE_MD5 \subseteq DUPLICATE_MD5'
  /\ \A f \in DOMAIN ppk :
       (ppk[f].pc = "dedup" /\ ppk'[f] # ppk[f] /\ HandMd5(f) \in DUPLICATE_MD5)
         => /\ ppk'[f].pc = "scan"
            /\ ppk'[f].decoded = ppk[f].decoded
            /\ ppk'[f].extracted_blocks = ppk[f].extracted_blocks
            /\ ppk'[f].blocks[Len(ppk'[f].blocks)].outcome = "duplicate"

\* extracted_blocks of all tasks together
RECURSIVE ExtractedUpTo(_)
ExtractedUpTo(f) ==
  IF f = 0 THEN 0 ELSE ppk[f].extracted_blocks + ExtractedUpTo(f - 1)
ExtractedBlocks == ExtractedUpTo(Len(ppk))

ExtractedWithinIndex == ExtractedBlocks <= Cardinality(DUPLICATE_MD5)

\* C33: in windowed mode the fingerprint is marked admitted before
\* decompression is attempted and is never unmarked: a block whose
\* decompression (or write) fails leaves its fingerprint in the index, so
\* every later block with the same raw bytes, in the same or any other
\* container of the run, is skipped, and in every reachable state the total
\* number of extracted blocks is at most the size of the index.
C33_ExtractedWithinIndex ==
  [](MarkedStays /\ ExtractedWithinIndex) /\ [][SkipsMarked]_vars

\* ------------------------------------------------------------------- C34
\* stop() was called before the check of line 325 ran: during load and scan
StoppedBeforeExtracting == fs = "ok" /\ stop_at \in {"start", "scanned"}

\* the scan is over and found no frame
ZeroFrames == fs = "ok" /\ pc \notin {"start", "off"} /\ total_frames = 0

\* nothing of the extraction has happened: no task, no progress or file
\* signal, no folder and no file
NothingExtracted ==
  /\ task = << >>
  /\ ProgressEvents = << >>
  /\ FileEvents = << >>
  /\ dirs = {}
  /\ disk = << >>

\* the run has ended and its last signal is finished(0), the only terminal one
EndedWithZero ==
  /\ pc = "done"
  /\ events # << >>
  /\ events[Len(events)] = Finished(0)
  /\ Len(TerminalEvents) = 1

\* C34: a run that dispatches no extraction task, either because cancellation
\* was requested before extraction began (during load/scan) or because the
\* scanner found zero frames, ends with a finished event carrying count 0
\* and emits no progress event, no artifact event and writes no file.
C34_NoTaskRunEndsWithZero ==
  /\ []((StoppedBeforeExtracting \/ ZeroFrames) =>
          /\ NothingExtracted
          /\ pc \in {"start", "scanned", "done"}
          /\ pc = "done" => EndedWithZero)
  /\ (StoppedBeforeExtracting \/ ZeroFrames) ~> EndedWithZero

\* a container with frames whose run was stopped during the scan and has
\* ended with finished(0)
C34_Witness ==
  /\ stop_at = "start"
  /\ total_frames >= 1
  /\ EndedWithZero
  /\ NothingExtracted

\* ------------------------------------------------------------------- C35
\* MainWindow.update_progress (line 1571-1577): the value the bar is set to
update_progress(current, total) ==
  IF total <= 0 THEN 0 ELSE (current * 100) \div total

\* the progress signals so far are (0,total), (1,total), ... with total the
\* number of scanned frames, none beyond (total,total), and the bar stays
\* within 0..100
ProgressCounts ==
  /\ CountsFrom(ProgressEvents, 1, total_frames)
  /\ Len(ProgressEvents) <= total_frames + 1
  /\ \A k \in DOMAIN ProgressEvents :
       /\ EvN(ProgressEvents[k]) <= EvTotal(ProgressEvents[k])
       /\ update_progress(EvN(ProgressEvents[k]), EvTotal(ProgressEvents[k]))
            \in 0..100

\* a step sends at most one progress signal, behind those already sent
ProgressAdvances ==
  \/ ProgressEvents' = ProgressEvents
  \/ /\ Len(ProgressEvents') = Len(ProgressEvents) + 1
     /\ SubSeq(ProgressEvents', 1, Len(ProgressEvents)) = ProgressEvents
     /\ EvN(ProgressEvents'[Len(ProgressEvents')]) = Len(ProgressEvents)

\* C35: in every run of the desktop pipeline the progress events form the
\* sequence (0,total), (1,total), (2,total), ...: the total component is
\* constant and equal to the number of scanned frames, the done component
\* increases by exactly 1 per event and never exceeds total, under both
\* policies and whether or not the run is stopped.
C35_ProgressSequence == []ProgressCounts /\ [][ProgressAdvances]_vars

\* a stopped parallel run of two frames, the first of which failed to decode,
\* that got as far as (1, 2)
C35_Witness ==
  /\ fast_mode
  /\ pc = "done"
  /\ stop_at \in ExtractingPcs
  /\ total_frames = 2
  /\ task[1].ret = "zstd_error"
  /\ Len(ProgressEvents) = 2
  /\ EvN(ProgressEvents[2]) = 1

\* ------------------------------------------------------------------- C36
\* the blocks taken from container f so far, in the order they were taken:
\* those of the history and the one the task has in hand
Taken(f) ==
  ppk[f].blocks
    \o (IF InHand(f)
        THEN <<Block(ppk[f].magic_pos, ppk[f].block_end, "in_hand")>> ELSE << >>)

\* no signature of the file lies in [from, to)
NoSignatureIn(file, from, to) ==
  \A o \in Signatures(file) : ~(from <= o /\ o < to)

\* C36: in windowed mode the blocks taken from one container are pairwise
\* disjoint and in ascending offset order, each block starts at an occurrence
\* of the signature, has length between 4 and max_block_size bytes, and no
\* signature occurrence that lies at or after the end of a block is skipped
\* by the resumed scan, also when the block was cut by the size cap.
C36_BlocksDisjointAscending ==
  \A f \in DOMAIN ppk :
    LET file == ppk_files[f]
        taken == Taken(f)
    IN  /\ \A b \in DOMAIN taken :
             /\ taken[b].start \in Signatures(file)
             /\ taken[b].end - taken[b].start >= 4
             /\ taken[b].end - taken[b].start <= MAX_BLOCK_SIZE
             /\ taken[b].end <= FileLen(file)
             /\ NoSignatureIn(file, IF b = 1 THEN 0 ELSE taken[b - 1].end,
                              taken[b].start)
        /\ \A b, c \in DOMAIN taken : b < c => taken[b].end <= taken[c].start
        /\ (ppk[f].pc = "returned" /\ ppk[f].status = "success" /\ taken # << >>) =>
             NoSignatureIn(file, taken[Len(taken)].end, FileLen(file) + 1)

\* a block cut by the cap, the signature alone that the resumed scan finds
\* behind the rest, and the block after it
C36_Witness ==
  \E f \in DOMAIN ppk :
    /\ ppk[f].pc = "returned"
    /\ ppk[f].status = "success"
    /\ Len(ppk[f].blocks) = 3
    /\ ppk[f].blocks[1].end = ppk[f].blocks[1].start + MAX_BLOCK_SIZE
    /\ ppk[f].blocks[2].start > ppk[f].blocks[1].end
    /\ ppk[f].blocks[2].end - ppk[f].blocks[2].start = 4
    /\ ppk[f].blocks[3].start = ppk[f].blocks[2].end

\* ------------------------------------------------------------------- C37
\* the scan loop of line 134-141 (the loop of scan_zstd_frames): every
\* iteration that finds a signature moves pos at least 4 bytes on
NpkScanAdvances ==
  (npk.pc = "scan" /\ npk'.pc = "scan" /\ npk' # npk) =>
    /\ npk'.pos >= npk.pos + Len(ZSTD_MAGIC)
    /\ Len(npk'.frame_positions) = Len(npk.frame_positions) + 1

\* the windowed scan: a step that ends an iteration (the block is recorded:
\* small, duplicate, decode failure or written) moves offset at least 4 bytes
\* on, and no other step moves it
PpkScanAdvances ==
  \A f \in DOMAIN ppk :
    f \in DOMAIN ppk' =>
      /\ (Len(ppk'[f].blocks) > Len(ppk[f].blocks) /\ ppk'[f].pc = "scan") =>
           ppk'[f].offset >= ppk[f].offset + Len(ZSTD_MAGIC)
      /\ ppk'[f].pc = "scan" \/ ppk'[f].offset = ppk[f].offset
      /\ ppk'[f].offset >= ppk[f].offset

\* the iterations so far fit into the buffer, 4 bytes each; the function
\* scan_zstd_frames returns no more offsets than that either.  A task that
\* failed left its loop by the exception of line 168, in an iteration that
\* did not get to move offset.
LoopsBounded ==
  /\ npk.pc # "off" =>
       /\ Len(npk.frame_positions) * Len(ZSTD_MAGIC) <= Len(npk.data)
       /\ npk.pc = "scan" =>
            /\ Len(npk.frame_positions) * Len(ZSTD_MAGIC) <= npk.pos
            /\ npk.pos <= Len(npk.data)
       /\ Len(scan_zstd_frames(npk.data)) * Len(ZSTD_MAGIC) <= Len(npk.data)
  /\ \A f \in DOMAIN ppk :
       /\ ppk[f].processed_blocks * Len(ZSTD_MAGIC) <= FileLen(ppk_files[f])
       /\ Len(ppk[f].blocks) * Len(ZSTD_MAGIC) <= ppk[f].offset
            + (IF ppk[f].status = "failed" THEN Len(ZSTD_MAGIC) ELSE 0)
       /\ ppk[f].offset <= FileLen(ppk_files[f])

\* no scan loop is running or still to come: the loop of the command line
\* variant is over, and every container of the windowed variant has been
\* handed to a task whose loop is over
ScansOver ==
  /\ npk.pc # "scan"
  /\ main_pc # "start"
  /\ \A f \in DOMAIN ppk : ppk[f].pc \in {"returned", "collected"}

\* C37: both scanning loops terminate on every finite buffer: in
\* scan_zstd_frames and in the windowed scan of process_ppk_file the search
\* position strictly increases (by at least 4) on every iteration, including
\* iterations that discard a small block, skip a duplicate or hit a decode
\* failure, so the loop ends after at most len(buffer)/4 iterations.
C37_ScanLoopsTerminate ==
  /\ []LoopsBounded
  /\ [][NpkScanAdvances /\ PpkScanAdvances]_vars
  /\ <>[]ScansOver

\* a task of the windowed variant whose loop has ended after an iteration of
\* each kind: a block that did not decode and a short block behind it, or a
\* block written, a short one passed over and a duplicate skipped
C37_Witness ==
  \E f, g \in DOMAIN ppk :
    /\ ppk[f].pc = "returned"
    /\ ppk[f].status = "success"
    /\ ppk[f].offset = FileLen(ppk_files[f])
    /\ BlocksWith(f, "zstd_error") # {}
    /\ BlocksWith(f, "small") # {}
    /\ ppk[g].pc \in {"returned", "collected"}
    /\ BlocksWith(g, "duplicate") # {}
    /\ BlocksWith(g, "small") # {}
====
